---- MODULE Spec2Model ----
(***************************************************************************)
(* Model of the comparison server (src/server.js): the process-wide rate   *)
(* limiter, the response cache, the retry coordinator, the Figma client,   *)
(* the image comparison (resizeImage, analyzeImageDifferences,             *)
(* performComparison) and the two request handlers that use them.          *)
(*                                                                         *)
(* Every action runs one async function from the point where it is resumed *)
(* to its next suspension point (await of a timer or of network I/O), as   *)
(* the single-threaded event loop does.  Time is Date.now() in ms.         *)
(***************************************************************************)
EXTENDS Integers, Sequences, FiniteSets, TLC

VARIABLES now, ticks, lastFigmaApiCall, cache, loc, minReqGap, lastReqAt, reqUrls, url, parsed, cmp

vars ==
  <<now, ticks, lastFigmaApiCall, cache, loc, minReqGap, lastReqAt, reqUrls, url, parsed, cmp>>

(***************************************************************************)
(* Program constants                                                       *)
(***************************************************************************)
CACHE_TTL == 900000
MIN_API_CALL_INTERVAL == 3000
DefaultMaxRetries == 5
DefaultInitialDelay == 2000
MinExplicitWait == 1000

(***************************************************************************)
(* Bounds of the model                                                     *)
(***************************************************************************)
BootTime == 5000
Horizon == 4000
MaxRetriesArg == 5
MaxTicks == 4
MaxRaceTicks == 2
\* images drawn block by block: the number of blocks that are drawn and the
\* number of block columns their numbering uses
GridBlocks == 9
GridColumns == 3
\* the largest number of clusters put one below the other
MaxStacked == 24

Procs == {"p1", "p2"}
Deltas == {1000}

(***************************************************************************)
(* Strings are sequences of characters (some multi-letter tokens stand for *)
(* fixed pieces of text).                                                  *)
(***************************************************************************)
Null == <<"<null>">>
NoHeader == <<"<absent>">>

RECURSIVE IndexOf(_, _, _)
\* first position >= k in s holding character c, 0 when there is none
IndexOf(s, c, k) ==
  IF k > Len(s) THEN 0 ELSE IF s[k] = c THEN k ELSE IndexOf(s, c, k + 1)

RECURSIVE Split(_, _)
\* String.prototype.split(c): the pieces of s between occurrences of c
Split(s, c) ==
  LET k == IndexOf(s, c, 1) IN
  IF k = 0 THEN <<s>>
  ELSE <<SubSeq(s, 1, k - 1)>> \o Split(SubSeq(s, k + 1, Len(s)), c)

\* String.prototype.includes(sub)
Includes(s, sub) ==
  \E k \in 1..(Len(s) - Len(sub) + 1) : SubSeq(s, k, k + Len(sub) - 1) = sub

\* mutation: replace without the g flag, only the first occurrence
ReplaceFirst(s, c, d) ==
  LET k == IndexOf(s, c, 1) IN
  IF k = 0 THEN s ELSE SubSeq(s, 1, k - 1) \o <<d>> \o SubSeq(s, k + 1, Len(s))
RECURSIVE ReplaceAll(_, _, _)
\* String.prototype.replace(/c/g, d)
ReplaceAll(s, c, d) ==
  IF s = <<>> THEN <<>>
  ELSE <<IF Head(s) = c THEN d ELSE Head(s)>> \o ReplaceAll(Tail(s), c, d)

DigitChars == {"0", "1", "2", "3", "4", "5", "6", "7", "8", "9"}
DigitVal(c) ==
  CASE c = "0" -> 0 [] c = "1" -> 1 [] c = "2" -> 2 [] c = "3" -> 3 [] c = "4" -> 4
    [] c = "5" -> 5 [] c = "6" -> 6 [] c = "7" -> 7 [] c = "8" -> 8 [] c = "9" -> 9

RECURSIVE DigitPrefixLen(_, _)
\* number of leading decimal digits of s from position k on
DigitPrefixLen(s, k) ==
  IF k > Len(s) \/ s[k] \notin DigitChars THEN 0 ELSE 1 + DigitPrefixLen(s, k + 1)

RECURSIVE DigitsValue(_, _, _)
DigitsValue(s, k, n) ==
  IF n = 0 THEN 0 ELSE DigitsValue(s, k, n - 1) * 10 + DigitVal(s[k + n - 1])

RECURSIVE SkipSpaces(_, _)
SkipSpaces(s, k) ==
  IF k <= Len(s) /\ s[k] = " " THEN SkipSpaces(s, k + 1) ELSE k

\* parseInt(s, 10): leading blanks, an optional sign, then the longest run
\* of digits; NaN when that run is empty.
ParseInt(s) ==
  LET k0 == SkipSpaces(s, 1)
      neg == k0 <= Len(s) /\ s[k0] = "-"
      k1 == IF k0 <= Len(s) /\ s[k0] \in {"-", "+"} THEN k0 + 1 ELSE k0
      n == DigitPrefixLen(s, k1)
  IN IF n = 0 THEN [nan |-> TRUE, val |-> 0]
     ELSE [nan |-> FALSE,
           val |-> IF neg THEN 0 - DigitsValue(s, k1, n) ELSE DigitsValue(s, k1, n)]

RECURSIVE Pow2(_)
Pow2(n) == IF n = 0 THEN 1 ELSE 2 * Pow2(n - 1)

(***************************************************************************)
(* Errors: class RateLimitError (server.js 30-36) and plain Error; a       *)
(* thrown value that is no Error object has type "Value".                  *)
(***************************************************************************)
NoError == [type |-> "none", message |-> <<>>, retryAfter |-> 0]
RateLimitError(message, retryAfterMs) ==
  [type |-> "RateLimitError", message |-> message, retryAfter |-> retryAfterMs]
Error(message) == [type |-> "Error", message |-> message, retryAfter |-> 0]
ThrownValue(message) == [type |-> "Value", message |-> message, retryAfter |-> 0]
MaxRetriesExceeded == Error(<<"Max retries exceeded">>)

Txt429 == <<"4", "2", "9">>

(***************************************************************************)
(* waitForRateLimit (server.js 43-54)                                      *)
(***************************************************************************)
\* mutation: the comparison of line 47 inverted
RateLimitMustWaitInverted(last, t) == t - last > MIN_API_CALL_INTERVAL
\* line 47: the caller has to sleep
RateLimitMustWait(last, t) == t - last < MIN_API_CALL_INTERVAL
\* mutation: waits for the time elapsed instead of the time remaining
RateLimitWaitTimeElapsed(last, t) == t - last
\* line 48
RateLimitWaitTime(last, t) == MIN_API_CALL_INTERVAL - (t - last)

(***************************************************************************)
(* getCached (server.js 56-67)                                             *)
(***************************************************************************)
\* mutation: an entry exactly ttl old still counts as fresh
CacheHitInclusive(c, key, t, ttl) == key \in DOMAIN c /\ t - c[key].timestamp <= ttl
\* line 58: cached && Date.now() - cached.timestamp < ttl
CacheHit(c, key, t, ttl) == key \in DOMAIN c /\ t - c[key].timestamp < ttl
\* mutation: storing an entry drops the entries of the other keys
CacheSetSingleEntry(c, key, data, t) ==
  [k \in {key} |-> [data |-> data, timestamp |-> t]]
\* line 65: cache.set(key, { data, timestamp: Date.now() })
CacheSet(c, key, data, t) ==
  [k \in (DOMAIN c) \cup {key} |->
     IF k = key THEN [data |-> data, timestamp |-> t] ELSE c[k]]
\* mutation: the entry is written whether or not the fetcher succeeded
CacheAfterFetchAlways(c, key, ok, data, t) ==
  [k \in (DOMAIN c) \cup {key} |->
     IF k = key THEN [data |-> data, timestamp |-> t] ELSE c[k]]
\* lines 64-66: the cache once the awaited fetcher has settled at time t;
\* a rejection leaves line 64 by the exception, line 65 is not reached
CacheAfterFetch(c, key, ok, data, t) ==
  IF ok THEN CacheSet(c, key, data, t) ELSE c

(***************************************************************************)
(* retryWithBackoff (server.js 69-98)                                      *)
(***************************************************************************)
\* mutation: one attempt too many
RetryLoopCondInclusive(i, maxRetries) == i <= maxRetries
\* line 72: the loop condition
RetryLoopCond(i, maxRetries) == i < maxRetries
\* mutation: every Error is retried
IsRateLimitClassAnyError(err) == err.type \in {"RateLimitError", "Error"}
\* lines 78 and 86: the errors that are retried
IsRateLimitClass(err) ==
  \/ err.type = "RateLimitError"
  \/ err.type = "Error" /\ Includes(err.message, Txt429)
\* mutation: an explicit wait of exactly 1000 ms is not honoured
RetryWaitTimeStrict(err, i, initialDelay) ==
  IF err.type = "RateLimitError" /\ err.retryAfter > MinExplicitWait
  THEN err.retryAfter ELSE initialDelay * Pow2(i)
\* lines 79-80 and 87: the sleep after failed attempt i
RetryWaitTime(err, i, initialDelay) ==
  IF err.type = "RateLimitError"
  THEN IF err.retryAfter < MinExplicitWait THEN initialDelay * Pow2(i) ELSE err.retryAfter
  ELSE initialDelay * Pow2(i)
\* line 97: throw lastError || new Error('Max retries exceeded')
ExhaustedError(lastError) ==
  IF lastError.type = "none" THEN MaxRetriesExceeded ELSE lastError

(***************************************************************************)
(* parseFigmaUrl (server.js 100-115).  A URL string is a sequence of       *)
(* characters in which "H" stands for "https://www.figma.com" and "N" for  *)
(* the parameter name "node-id".  new URL() throws on a string without a   *)
(* scheme.                                                                 *)
(***************************************************************************)
UrlParsable(u) == Len(u) >= 1 /\ u[1] = "H"

\* url.pathname
UrlPathname(u) ==
  LET rest == Tail(u)
      q == IndexOf(rest, "?", 1)
      p == IF q = 0 THEN rest ELSE SubSeq(rest, 1, q - 1)
  IN IF p = <<>> THEN <<"/">> ELSE p

\* url.search without the leading "?"
UrlQuery(u) ==
  LET rest == Tail(u)
      q == IndexOf(rest, "?", 1)
  IN IF q = 0 THEN <<>> ELSE SubSeq(rest, q + 1, Len(rest))

ParamName(par) ==
  LET e == IndexOf(par, "=", 1) IN IF e = 0 THEN par ELSE SubSeq(par, 1, e - 1)
ParamValue(par) ==
  LET e == IndexOf(par, "=", 1) IN IF e = 0 THEN <<>> ELSE SubSeq(par, e + 1, Len(par))

\* url.searchParams.get(name): the value of the first parameter of that
\* name, null when there is none
SearchParamsGet(query, name) ==
  LET params == Split(query, "&")
      hits == {k \in 1..Len(params) : params[k] # <<>> /\ ParamName(params[k]) = name}
  IN IF hits = {} THEN Null
     ELSE ParamValue(params[CHOOSE k \in hits : \A j \in hits : k <= j])

\* a string or null that is truthy in JavaScript
Truthy(s) == s # Null /\ s # <<>>

\* mutation: the second path segment is taken for the file key
parseFigmaUrlSecondSegment(urlStr) ==
  IF ~UrlParsable(urlStr) THEN [fileKey |-> Null, nodeId |-> Null]
  ELSE LET pathParts == Split(UrlPathname(urlStr), "/")
           seg == IF Len(pathParts) >= 2 THEN pathParts[2] ELSE Null
           fileKey == IF Truthy(seg) THEN seg ELSE Null
           raw == SearchParamsGet(UrlQuery(urlStr), <<"N">>)
           nodeId == IF Truthy(raw) THEN ReplaceAll(raw, "-", ":") ELSE raw
       IN [fileKey |-> fileKey, nodeId |-> nodeId]

parseFigmaUrl(urlStr) ==
  IF ~UrlParsable(urlStr) THEN [fileKey |-> Null, nodeId |-> Null]
  ELSE LET pathParts == Split(UrlPathname(urlStr), "/")
           seg == IF Len(pathParts) >= 3 THEN pathParts[3] ELSE Null
           fileKey == IF Truthy(seg) THEN seg ELSE Null
           raw == SearchParamsGet(UrlQuery(urlStr), <<"N">>)
           nodeId == IF Truthy(raw) THEN ReplaceAll(raw, "-", ":") ELSE raw
       IN [fileKey |-> fileKey, nodeId |-> nodeId]

(***************************************************************************)
(* The Figma client: the function passed to retryWithBackoff by            *)
(* fetchFigmaFrameData (server.js 123-142) and exportFigmaImage (168-187). *)
(* An HTTP response is [status, retryAfter, text]: retryAfter is the       *)
(* Retry-After header (NoHeader when absent), text the body of an error.   *)
(***************************************************************************)
StatusText(status) ==
  CASE status = 429 -> <<"4", "2", "9">>
    [] status = 403 -> <<"4", "0", "3">>
    [] status = 404 -> <<"4", "0", "4">>
    [] status = 500 -> <<"5", "0", "0">>
    [] status = 200 -> <<"2", "0", "0">>

ResOk(res) == res.status >= 200 /\ res.status <= 299

\* the template `Figma API error ${res.status}: ${errorText}`
ApiErrorMessage(kind, status, text) ==
  <<IF kind = "image" /\ status # 429 THEN "Figma Images API error " ELSE "Figma API error ">>
    \o StatusText(status) \o <<": ">> \o text

\* mutation: the Retry-After seconds are not converted to milliseconds
FigmaFetchErrorSeconds(kind, res) ==
  IF res.status = 429
  THEN IF Truthy(res.retryAfter) /\ res.retryAfter # NoHeader /\ ~ParseInt(res.retryAfter).nan
       THEN RateLimitError(<<"Figma API rate limit exceeded">>, ParseInt(res.retryAfter).val)
       ELSE Error(ApiErrorMessage(kind, 429, <<"Rate limit exceeded">>))
  ELSE Error(ApiErrorMessage(kind, res.status, res.text))

\* lines 129-139 / 174-184: the error thrown for a response that is not ok
FigmaFetchError(kind, res) ==
  IF res.status = 429
  THEN IF Truthy(res.retryAfter) /\ res.retryAfter # NoHeader /\ ~ParseInt(res.retryAfter).nan
       THEN RateLimitError(<<"Figma API rate limit exceeded">>,
                           ParseInt(res.retryAfter).val * 1000)
       ELSE Error(ApiErrorMessage(kind, 429, <<"Rate limit exceeded">>))
  ELSE Error(ApiErrorMessage(kind, res.status, res.text))

(***************************************************************************)
(* Data returned by the client and kept in the cache.  Bounding-box sizes  *)
(* are given in half pixels (w2 = 2 * width) so that Math.round is exact.  *)
(***************************************************************************)
NoData == [kind |-> "none", width |-> 0, height |-> 0, val |-> ""]
FrameData(w, h) == [kind |-> "frame", width |-> w, height |-> h, val |-> ""]
ImageData(u) == [kind |-> "image", width |-> 0, height |-> 0, val |-> u]
ValueData(v) == [kind |-> "value", width |-> 0, height |-> 0, val |-> v]

\* Math.round of h/2
RoundHalf(h) == (h + 1) \div 2

\* lines 144-156 and 189-192: the result computed from the JSON body
\* body = [present, w2, h2, val]: the node's bounding box / the image URL
BodyResult(kind, body) ==
  IF kind = "frame"
  THEN IF ~body.present
       THEN [ok |-> FALSE, data |-> NoData,
             err |-> Error(<<"Invalid node structure or no bounding box found.">>)]
       ELSE [ok |-> TRUE, data |-> FrameData(RoundHalf(body.w2), RoundHalf(body.h2)),
             err |-> NoError]
  ELSE IF body.val = ""
       THEN [ok |-> FALSE, data |-> NoData,
             err |-> Error(<<"No image URL returned from Figma API.">>)]
       ELSE [ok |-> TRUE, data |-> ImageData(body.val), err |-> NoError]

\* the template `frame-data-${fileKey}-${nodeId}` / `figma-image-...`
NullText(s) == IF s = Null THEN <<"n", "u", "l", "l">> ELSE s
CacheKey(kind, fileKey, nodeId) ==
  <<IF kind = "frame" THEN "frame-data" ELSE "figma-image">>
    \o <<"-">> \o NullText(fileKey) \o <<"-">> \o NullText(nodeId)

(***************************************************************************)
(* Raster images (server.js 200-221, 395-431).  A decoded image is         *)
(* [width, height, len, ...]: len is data.length (4 bytes per pixel, R G B *)
(* A) and the bytes are given by a pattern instead of being listed: the    *)
(* pixel at (x, y) has colour a inside the shape and colour b outside it.  *)
(* An image made by resizeImage keeps the pattern of its source together   *)
(* with the source size (srcW, srcH), and its bytes are the ones the copy  *)
(* loop of lines 207-219 writes.                                           *)
(***************************************************************************)
BLOCK_SIZE == 20
MaxIssues == 20
HighArea == 50000
MediumArea == 10000
ColorArea == 1000
\* Infinity and -Infinity of lines 286-287: beyond every block index
Infinity == 1000000
\* the length of a buffer that does not exist (data is null)
NoBuffer == 0 - 1
\* the value read past the end of a buffer (undefined)
Undefined == 0 - 1
UndefinedPixel == <<Undefined, Undefined, Undefined, Undefined>>

Min(a, b) == IF a < b THEN a ELSE b
Max(a, b) == IF a > b THEN a ELSE b
\* Math.min of three numbers (lines 434-435)
Min3(a, b, c) == Min(a, Min(b, c))
\* Math.ceil(a / b) for a >= 0, b > 0
CeilDiv(a, b) == (a + b - 1) \div b
\* Math.abs
Abs(a) == IF a < 0 THEN 0 - a ELSE a

Black == <<0, 0, 0, 255>>
White == <<255, 255, 255, 255>>
Pattern(shape, n, a, b) == [shape |-> shape, n |-> n, a |-> a, b |-> b]

\* mutation: a buffer is allocated whatever the size
PngDataLengthAlways(width, height) == 4 * width * height
\* new PNG({ width, height }) of pngjs: the size is coerced to integers and
\* data is a buffer of 4 * width * height bytes, or null when a side is
\* not positive
PngDataLength(width, height) ==
  IF width > 0 /\ height > 0 THEN 4 * width * height ELSE NoBuffer

\* an image as the decoders return it (PNG.sync.read, jpeg.decode)
Decoded(width, height, pat) ==
  [width |-> width, height |-> height, len |-> 4 * width * height,
   pat |-> pat, resized |-> FALSE, srcW |-> width, srcH |-> height]

\* the pixel (x, y) of the pattern
InShape(pat, x, y) ==
  CASE pat.shape = "solid" -> FALSE
    [] pat.shape = "corner" -> x < pat.n /\ y < pat.n
    [] pat.shape = "checker" -> ((x \div BLOCK_SIZE) + (y \div BLOCK_SIZE)) % 2 = 0
    [] pat.shape = "bands" -> (x \div BLOCK_SIZE) % 2 = 0
    [] pat.shape = "columns" -> x % pat.n = 0
    [] pat.shape = "diagonal" -> (x \div BLOCK_SIZE) = (y \div BLOCK_SIZE)
    [] pat.shape = "grid" ->
         \* bit number 3 * row + column of n says whether the block is inside
         (pat.n \div Pow2((y \div BLOCK_SIZE) * GridColumns + (x \div BLOCK_SIZE))) % 2 = 1
PatternPixel(pat, x, y) == IF InShape(pat, x, y) THEN pat.a ELSE pat.b

\* lines 209-211: the index in the source of the pixel copied to (x, y);
\* scaleX = png.width / targetWidth and Math.floor(x * scaleX).  For the
\* sizes that are resampled here (60 to 45 and 30, 40 to 25 and 20) the
\* double-precision product has the same floor as the exact quotient; for
\* other sizes rounding can make it one smaller, never larger.
SrcIdx(srcW, srcH, targetWidth, targetHeight, x, y) ==
  LET srcX == (x * srcW) \div targetWidth
      srcY == (y * srcH) \div targetHeight
  IN (srcY * srcW + srcX) * 4

\* the four bytes of img.data from index idx (a multiple of 4) on
PixelAt(img, idx) ==
  IF idx < 0 \/ idx + 3 >= img.len THEN UndefinedPixel
  ELSE LET p == idx \div 4
           x == p % img.width
           y == p \div img.width
       IN IF ~img.resized THEN PatternPixel(img.pat, x, y)
          ELSE LET s == SrcIdx(img.srcW, img.srcH, img.width, img.height, x, y)
                   sp == s \div 4
               IN IF s + 3 >= 4 * img.srcW * img.srcH
                  THEN <<0, 0, 0, 0>>
                  ELSE PatternPixel(img.pat, sp % img.srcW, sp \div img.srcW)

\* resizeImage (lines 200-221); png is a decoded image
resizeImage(png, targetWidth, targetHeight) ==
  IF png.width = targetWidth /\ png.height = targetHeight THEN png
  ELSE [width |-> targetWidth, height |-> targetHeight,
        len |-> PngDataLength(targetWidth, targetHeight),
        pat |-> png.pat, resized |-> TRUE, srcW |-> png.width, srcH |-> png.height]

\* the reads png.data[srcIdx + c] of lines 214-217 that fall outside png.data
ResizeReadsOutside(png, targetWidth, targetHeight) ==
  IF png.width = targetWidth /\ png.height = targetHeight THEN {}
  ELSE {xy \in (0..(targetWidth - 1)) \X (0..(targetHeight - 1)) :
          LET s == SrcIdx(png.width, png.height, targetWidth, targetHeight, xy[1], xy[2])
          IN s < 0 \/ s + 3 >= png.len}

(***************************************************************************)
(* analyzeImageDifferences (server.js 223-380)                             *)
(***************************************************************************)
\* lines 232-238; blockThreshold is given in per cent (0.20 is 20)
DefaultConfig == [pixelDiffThreshold |-> 25, blockThreshold |-> 5, minArea |-> 100]
\* mutation: level 4 asks for a larger area than level 3
SensitivityConfigLevel4Area(sensitivity) ==
  CASE sensitivity = 1 -> [pixelDiffThreshold |-> 50, blockThreshold |-> 20, minArea |-> 500]
    [] sensitivity = 2 -> [pixelDiffThreshold |-> 35, blockThreshold |-> 10, minArea |-> 250]
    [] sensitivity = 3 -> [pixelDiffThreshold |-> 25, blockThreshold |-> 5, minArea |-> 100]
    [] sensitivity = 4 -> [pixelDiffThreshold |-> 15, blockThreshold |-> 2, minArea |-> 500]
    [] sensitivity = 5 -> [pixelDiffThreshold |-> 5, blockThreshold |-> 1, minArea |-> 10]
    [] OTHER -> DefaultConfig
SensitivityConfig(sensitivity) ==
  CASE sensitivity = 1 -> [pixelDiffThreshold |-> 50, blockThreshold |-> 20, minArea |-> 500]
    [] sensitivity = 2 -> [pixelDiffThreshold |-> 35, blockThreshold |-> 10, minArea |-> 250]
    [] sensitivity = 3 -> [pixelDiffThreshold |-> 25, blockThreshold |-> 5, minArea |-> 100]
    [] sensitivity = 4 -> [pixelDiffThreshold |-> 15, blockThreshold |-> 2, minArea |-> 50]
    [] sensitivity = 5 -> [pixelDiffThreshold |-> 5, blockThreshold |-> 1, minArea |-> 10]
    [] OTHER -> DefaultConfig

\* lines 256-268 for the pixel at idx: skipped (line 258), or counted, and
\* then different when the mean of the three channel differences exceeds
\* the threshold; a difference with undefined is NaN and exceeds nothing
PixelSkipped(screenshot, idx) == idx + 2 >= screenshot.len
\* mutation: a mean difference equal to the threshold counts as well
PixelDiffersInclusive(screenshot, figma, idx, config) ==
  LET s == PixelAt(screenshot, idx)
      f == PixelAt(figma, idx)
  IN /\ f[1] # Undefined
     /\ Abs(s[1] - f[1]) + Abs(s[2] - f[2]) + Abs(s[3] - f[3])
          >= 3 * config.pixelDiffThreshold
PixelDiffers(screenshot, figma, idx, config) ==
  LET s == PixelAt(screenshot, idx)
      f == PixelAt(figma, idx)
  IN /\ f[1] # Undefined
     /\ Abs(s[1] - f[1]) + Abs(s[2] - f[2]) + Abs(s[3] - f[3])
          > 3 * config.pixelDiffThreshold

\* lines 245-255: the pixels (x, y) the two inner loops visit for block
\* (bx, by)
BlockPixels(width, height, bx, by) ==
  LET startX == bx * BLOCK_SIZE
      startY == by * BLOCK_SIZE
      endX == Min(startX + BLOCK_SIZE, width)
      endY == Min(startY + BLOCK_SIZE, height)
  IN (startX..(endX - 1)) \X (startY..(endY - 1))

\* lines 245-275: block (bx, by) is marked active
BlockActive(screenshot, figma, width, height, config, bx, by) ==
  LET counted == {xy \in BlockPixels(width, height, bx, by) :
                    ~PixelSkipped(screenshot, (xy[2] * width + xy[1]) * 4)}
      totalPixels == Cardinality(counted)
      diffPixels ==
        Cardinality({xy \in counted :
                       PixelDiffers(screenshot, figma, (xy[2] * width + xy[1]) * 4, config)})
  IN totalPixels > 0 /\ diffPixels * 100 > config.blockThreshold * totalPixels

\* lines 243-277: the indices by * blocksX + bx of the active blocks
ActiveBlocks(screenshot, figma, width, height, config) ==
  LET blocksX == CeilDiv(width, BLOCK_SIZE)
      blocksY == CeilDiv(height, BLOCK_SIZE)
  IN {i \in 0..(blocksX * blocksY - 1) :
        BlockActive(screenshot, figma, width, height, config, i % blocksX, i \div blocksX)}

\* mutation: the four diagonal neighbours are visited too
NeighborsDiagonal(cx, cy) ==
  <<[nx |-> cx + 1, ny |-> cy], [nx |-> cx - 1, ny |-> cy],
    [nx |-> cx, ny |-> cy + 1], [nx |-> cx, ny |-> cy - 1],
    [nx |-> cx + 1, ny |-> cy + 1], [nx |-> cx - 1, ny |-> cy - 1],
    [nx |-> cx + 1, ny |-> cy - 1], [nx |-> cx - 1, ny |-> cy + 1]>>
\* lines 305-310
Neighbors(cx, cy) ==
  <<[nx |-> cx + 1, ny |-> cy], [nx |-> cx - 1, ny |-> cy],
    [nx |-> cx, ny |-> cy + 1], [nx |-> cx, ny |-> cy - 1]>>

RECURSIVE PushNeighbors(_, _, _, _, _, _)
\* lines 312-320: the neighbours from position k on; st = [stack, visited]
PushNeighbors(ns, k, st, active, blocksX, blocksY) ==
  IF k > Len(ns) THEN st
  ELSE LET n == ns[k]
           nIdx == n.ny * blocksX + n.nx
           st1 == IF /\ n.nx >= 0 /\ n.nx < blocksX /\ n.ny >= 0 /\ n.ny < blocksY
                     /\ nIdx \in active /\ nIdx \notin st.visited
                  THEN [stack |-> Append(st.stack, nIdx),
                        visited |-> st.visited \cup {nIdx}]
                  ELSE st
       IN PushNeighbors(ns, k + 1, st1, active, blocksX, blocksY)

RECURSIVE Flood(_, _, _, _, _)
\* lines 294-321: the traversal from the blocks on the stack; blocks is
\* history only: the indices popped for this cluster
Flood(st, cluster, active, blocksX, blocksY) ==
  IF st.stack = <<>> THEN [cluster |-> cluster, visited |-> st.visited]
  ELSE LET currIdx == st.stack[Len(st.stack)]
           cx == currIdx % blocksX
           cy == currIdx \div blocksX
           c1 == [minX |-> Min(cluster.minX, cx), minY |-> Min(cluster.minY, cy),
                  maxX |-> Max(cluster.maxX, cx), maxY |-> Max(cluster.maxY, cy),
                  blockCount |-> cluster.blockCount + 1,
                  blocks |-> cluster.blocks \cup {currIdx}]
           popped == [stack |-> SubSeq(st.stack, 1, Len(st.stack) - 1),
                      visited |-> st.visited]
       IN Flood(PushNeighbors(Neighbors(cx, cy), 1, popped, active, blocksX, blocksY),
                c1, active, blocksX, blocksY)

RECURSIVE FindClusters(_, _, _, _, _, _)
\* lines 283-324: the clusters found from block i on, in the order found;
\* the loop goes on to the first block j >= i that passes the test of line
\* 284
FindClusters(i, visited, clusters, active, blocksX, blocksY) ==
  LET todo == {j \in i..(blocksX * blocksY - 1) : j \in active /\ j \notin visited}
  IN IF todo = {} THEN clusters
     ELSE LET j == CHOOSE m \in todo : \A n \in todo : m <= n
              r == Flood([stack |-> <<j>>, visited |-> visited \cup {j}],
                         [minX |-> Infinity, minY |-> Infinity,
                          maxX |-> 0 - Infinity, maxY |-> 0 - Infinity,
                          blockCount |-> 0, blocks |-> {}],
                         active, blocksX, blocksY)
          IN FindClusters(j + 1, r.visited, Append(clusters, r.cluster),
                          active, blocksX, blocksY)

\* mutation: an area equal to a limit already has the higher severity
SeverityInclusive(area) ==
  IF area >= HighArea THEN "High" ELSE IF area >= MediumArea THEN "Medium" ELSE "Low"
\* lines 340-352
Severity(area) ==
  IF area > HighArea THEN "High" ELSE IF area > MediumArea THEN "Medium" ELSE "Low"
\* mutation: every issue that is not Medium or High is a Color issue
IssueTypeBelowMedium(area) == IF area <= MediumArea THEN "Color" ELSE "Layout"
\* lines 354-356
IssueType(area) == IF area < ColorArea THEN "Color" ELSE "Layout"
\* line 374
SevScore(severity) ==
  CASE severity = "High" -> 3 [] severity = "Medium" -> 2 [] severity = "Low" -> 1

\* lines 330-338: the region of a cluster
ClusterRegion(cluster, width, height) ==
  LET x == cluster.minX * BLOCK_SIZE
      y == cluster.minY * BLOCK_SIZE
      w == (cluster.maxX - cluster.minX + 1) * BLOCK_SIZE
      h == (cluster.maxY - cluster.minY + 1) * BLOCK_SIZE
      finalX == Max(0, x)
      finalY == Max(0, y)
  IN [x |-> finalX, y |-> finalY,
      width |-> Min(w, width - finalX), height |-> Min(h, height - finalY)]

RegionArea(region) == region.width * region.height

RECURSIVE GenerateIssues(_, _, _, _, _)
\* lines 327-370: the issues of the clusters from position k on; index is
\* the number in the id diff-cluster-<index>
GenerateIssues(clusters, k, width, height, config) ==
  IF k > Len(clusters) THEN <<>>
  ELSE LET region == ClusterRegion(clusters[k], width, height)
           area == RegionArea(region)
           rest == GenerateIssues(clusters, k + 1, width, height, config)
       IN IF clusters[k].blockCount < 1 \/ area < config.minArea THEN rest
          ELSE <<[index |-> k - 1, type |-> IssueType(area),
                  severity |-> Severity(area), region |-> region]>> \o rest

\* mutation: the areas are not compared
CompareIssuesSeverityOnly(a, b) == SevScore(b.severity) - SevScore(a.severity)
\* lines 373-378: the comparator; negative when a comes first
CompareIssues(a, b) ==
  IF SevScore(a.severity) # SevScore(b.severity)
  THEN SevScore(b.severity) - SevScore(a.severity)
  ELSE RegionArea(b.region) - RegionArea(a.region)

RECURSIVE InsertIssue(_, _)
\* e goes behind every issue that does not come after it (sort is stable)
InsertIssue(sorted, e) ==
  IF sorted = <<>> THEN <<e>>
  ELSE IF CompareIssues(sorted[Len(sorted)], e) <= 0 THEN Append(sorted, e)
  ELSE Append(InsertIssue(SubSeq(sorted, 1, Len(sorted) - 1), e), sorted[Len(sorted)])

RECURSIVE SortIssues(_, _)
\* Array.prototype.sort with the comparator of lines 373-378
SortIssues(issues, k) ==
  IF k = 0 THEN <<>> ELSE InsertIssue(SortIssues(issues, k - 1), issues[k])

\* the pixels of the width * height area for which the reads of lines
\* 258-262 do not find three bytes in both buffers
AnalyzerReadsOutside(screenshot, figma, width, height) ==
  {xy \in (0..(width - 1)) \X (0..(height - 1)) :
     LET idx == (xy[2] * width + xy[1]) * 4
     IN idx + 2 >= screenshot.len \/ idx + 2 >= figma.len}

\* mutation: the list is returned whole
TopIssuesAll(issues) == issues
\* line 379: slice(0, 20)
TopIssues(issues) == SubSeq(issues, 1, Min(MaxIssues, Len(issues)))

\* lines 279-379: analyzeImageDifferences from the point where the active
\* blocks are known
ReportActiveBlocks(active, width, height, sensitivity) ==
  LET config == SensitivityConfig(sensitivity)
      blocksX == CeilDiv(width, BLOCK_SIZE)
      blocksY == CeilDiv(height, BLOCK_SIZE)
      clusters == FindClusters(0, {}, <<>>, active, blocksX, blocksY)
      issues == GenerateIssues(clusters, 1, width, height, config)
  IN [issues |-> TopIssues(SortIssues(issues, Len(issues))),
      active |-> active, clusters |-> Len(clusters), found |-> clusters,
      derived |-> issues]

\* analyzeImageDifferences; besides the issues returned, the active blocks,
\* the clusters (found, and their number) and the issues before they are
\* sorted and cut (derived) are given
analyzeImageDifferences(screenshot, figma, width, height, sensitivity) ==
  ReportActiveBlocks(ActiveBlocks(screenshot, figma, width, height,
                                  SensitivityConfig(sensitivity)),
                     width, height, sensitivity)

(***************************************************************************)
(* performComparison (server.js 382-484)                                   *)
(***************************************************************************)
\* the pixels in which two buffers of width * height pixels differ
DifferingPixels(img1, img2, width, height) ==
  {p \in 0..(width * height - 1) : PixelAt(img1, 4 * p) # PixelAt(img2, 4 * p)}

\* pixelmatch(img1, img2, output, width, height) of the pixelmatch package
\* throws unless img1 and img2 are byte buffers of width * height * 4 bytes
\* and output, when given, has that length too
PixelmatchThrows(len1, len2, outputLen, width, height) ==
  \/ len1 = NoBuffer \/ len2 = NoBuffer
  \/ len1 # len2
  \/ (outputLen # NoBuffer /\ outputLen # len1)
  \/ len1 # width * height * 4
\* mutation: a pixel may be reported as mismatching although it is equal
PixelmatchCountsAnyPixel(img1, img2, width, height) ==
  {0, width * height}
\* the numbers pixelmatch may return: only pixels that differ are counted,
\* and of those the ones below the threshold or anti-aliased are not; the
\* extremes and a single pixel are explored
PixelmatchCounts(img1, img2, width, height) ==
  LET nd == Cardinality(DifferingPixels(img1, img2, width, height))
  IN {k \in {0, 1, nd} : k <= nd}

NoIssues == <<>>
NoComparison ==
  [ok |-> FALSE, error |-> "", width |-> 0, height |-> 0, diffPixels |-> 0,
   pixels |-> 0, issues |-> NoIssues, active |-> {}, clusters |-> 0,
   found |-> <<>>, derived |-> NoIssues,
   readsOutside |-> 0, analyzerOutside |-> 0, len1 |-> 0, len2 |-> 0]
Failed(error) == [NoComparison EXCEPT !.error = error]

\* lines 383-411: the screenshot is required and is decoded first
ScreenshotError(shotState) ==
  CASE shotState = "missing" -> "Client-side screenshot is required for local comparison."
    [] shotState = "malformed" -> "Invalid file signature"
    [] OTHER -> ""

\* mutation: the requested dimensions are not taken into the minimum
ComparisonSizeOfImages(a, b, c) == Min(a, b)
\* lines 434-435
ComparisonSize(a, b, c) == Min3(a, b, c)

\* lines 433-483 once both images are decoded; diffPixels is the number
\* pixelmatch returned.  diffScore is the quotient diffPixels / pixels.
CompareDecoded(screenshotPng, figmaPng, dimensions, sensitivity, diffPixels) ==
  LET width == ComparisonSize(screenshotPng.width, figmaPng.width, dimensions.width)
      height == ComparisonSize(screenshotPng.height, figmaPng.height, dimensions.height)
      resizedScreenshot == resizeImage(screenshotPng, width, height)
      resizedFigma == resizeImage(figmaPng, width, height)
      a == analyzeImageDifferences(resizedScreenshot, resizedFigma, width, height,
                                   sensitivity)
  IN [ok |-> TRUE, error |-> "", width |-> width, height |-> height,
      diffPixels |-> diffPixels, pixels |-> width * height,
      issues |-> a.issues, active |-> a.active, clusters |-> a.clusters,
      found |-> a.found, derived |-> a.derived,
      readsOutside |->
        Cardinality(ResizeReadsOutside(screenshotPng, width, height))
          + Cardinality(ResizeReadsOutside(figmaPng, width, height)),
      analyzerOutside |->
        Cardinality(AnalyzerReadsOutside(resizedScreenshot, resizedFigma, width, height)),
      len1 |-> resizedScreenshot.len, len2 |-> resizedFigma.len]

\* lines 433-462: what pixelmatch is called with
PixelmatchCall(screenshotPng, figmaPng, dimensions) ==
  LET width == ComparisonSize(screenshotPng.width, figmaPng.width, dimensions.width)
      height == ComparisonSize(screenshotPng.height, figmaPng.height, dimensions.height)
  IN [img1 |-> resizeImage(screenshotPng, width, height),
      img2 |-> resizeImage(figmaPng, width, height),
      outputLen |-> PngDataLength(width, height),
      width |-> width, height |-> height]

(***************************************************************************)
(* performComparison and analyzeImageDifferences applied to given images   *)
(***************************************************************************)
Grey10 == <<10, 10, 10, 255>>
\* the three channels differ from black by 45, 30 and 0: 25 in the mean
Mean25 == <<45, 30, 0, 255>>
Transparent == <<0, 0, 0, 0>>
Grey30 == <<30, 30, 30, 255>>
SolidBlack == Pattern("solid", 0, Black, Black)
SolidWhite == Pattern("solid", 0, White, White)
Corner30 == Pattern("corner", 30, White, Black)
Checker == Pattern("checker", 0, White, Black)
Bands == Pattern("bands", 0, White, Grey30)
Columns20 == Pattern("columns", 20, White, Black)
Faint == Pattern("solid", 0, Grey10, Grey10)

Dims(width, height) == [width |-> width, height |-> height]
Images(shotState, shot, figma, dims) ==
  [shotState |-> shotState, shot |-> shot, figma |-> figma, dims |-> dims]

\* the captured image, the reference image and the requested dimensions
ImagePairs ==
  {Images("ok", Decoded(100, 100, Corner30), Decoded(100, 100, SolidBlack), Dims(100, 100)),
   Images("ok", Decoded(140, 120, Checker), Decoded(140, 120, SolidBlack), Dims(140, 120)),
   Images("ok", Decoded(60, 20, Bands), Decoded(60, 20, SolidBlack), Dims(60, 20)),
   Images("ok", Decoded(45, 25, Checker), Decoded(45, 25, Checker), Dims(45, 25)),
   Images("ok", Decoded(60, 40, Corner30), Decoded(60, 40, Corner30), Dims(30, 20)),
   Images("ok", Decoded(60, 40, Checker), Decoded(45, 25, Corner30), Dims(50, 30)),
   Images("ok", Decoded(20, 20, SolidWhite), Decoded(20, 20, SolidBlack), Dims(0, 0)),
   Images("ok", Decoded(20, 20, SolidWhite), Decoded(20, 20, SolidBlack), Dims(0, 20)),
   Images("ok", Decoded(1, 1, SolidWhite), Decoded(1, 1, SolidBlack), Dims(1, 1)),
   Images("ok", Decoded(40, 20, Columns20), Decoded(40, 20, SolidBlack), Dims(40, 20)),
   Images("ok", Decoded(20, 20, Faint), Decoded(20, 20, SolidBlack), Dims(20, 20)),
   Images("ok", Decoded(20, 20, SolidWhite), Decoded(20, 20, SolidBlack), Dims(45, 25)),
   Images("ok", Decoded(45, 25, SolidWhite), Decoded(20, 20, SolidBlack), Dims(45, 25)),
   Images("ok", Decoded(21, 20, SolidWhite), Decoded(21, 20, SolidBlack), Dims(21, 20)),
   Images("ok", Decoded(20, 20, Pattern("solid", 0, Mean25, Mean25)),
          Decoded(20, 20, SolidBlack), Dims(20, 20)),
   Images("ok", Decoded(20, 20, Pattern("solid", 0, Transparent, Transparent)),
          Decoded(20, 20, SolidBlack), Dims(20, 20)),
   Images("missing", Decoded(1, 1, SolidWhite), Decoded(1, 1, SolidBlack), Dims(1, 1)),
   Images("malformed", Decoded(1, 1, SolidWhite), Decoded(1, 1, SolidBlack), Dims(1, 1))}
\* 0 stands for a level that is not one of 1..5
Sensitivities == 0..5

NoPrevious == [s |-> 0 - 1, issues |-> NoIssues, active |-> {}, derived |-> NoIssues]
IdleCmp == [stage |-> "none", inp |-> Images("missing", Decoded(1, 1, SolidBlack),
                                             Decoded(1, 1, SolidBlack), Dims(1, 1)),
            s |-> 0, res |-> NoComparison, prev |-> NoPrevious]


(***************************************************************************)
(* Per-call state of a request being served.  pc is the suspension point   *)
(* the call is waiting at; route is the entry point that was called: one   *)
(* of the two handlers, or one of the functions called on its own          *)
(* ("fetcher", "retry", "getCached").  The fields from rlRead on are       *)
(* history only; startedAt and settledAt are the times at which a          *)
(* getCached call was made and at which its fetcher settled.               *)
(***************************************************************************)
NoResult == [ok |-> FALSE, data |-> NoData, err |-> NoError]
IdleLoc ==
  [pc |-> "idle", route |-> "none", fileKey |-> Null, nodeId |-> Null,
   needImg |-> FALSE, kind |-> "none", key |-> <<>>, ttl |-> 0,
   i |-> 0, maxRetries |-> 0, initialDelay |-> 0, lastError |-> NoError,
   wake |-> 0, dims |-> NoData, img |-> NoData,
   rlRead |-> 0, rlWaited |-> FALSE, acquired |-> 0, reqAt |-> 0,
   calls |-> 0, sleeps |-> <<>>, errs |-> <<>>, fetched |-> 0, hits |-> 0,
   lastStatus |-> 0, lastHdr |-> NoHeader, snapTs |-> 0, got |-> NoResult,
   startedAt |-> 0, settledAt |-> 0,
   result |-> NoResult, resp |-> 0]

\* the call has ended with a value or an error; a handler answers with
\* HTTP status resp.  The locals of the call are gone.
Finish(l, ok, data, err, resp) ==
  [l EXCEPT !.pc = "idle", !.result = [ok |-> ok, data |-> data, err |-> err],
            !.resp = resp, !.i = 0, !.lastError = NoError, !.wake = 0,
            !.dims = NoData, !.img = NoData,
            !.rlRead = 0, !.rlWaited = FALSE, !.acquired = 0, !.reqAt = 0,
            !.lastStatus = 0, !.lastHdr = NoHeader]

\* an error leaves the fetcher (catch and rethrow, lines 157-160, 193-196)
\* and getCached and reaches the handler's catch (lines 508-511, 550-553),
\* which answers 500
Throw(l, err) == Finish(l, FALSE, NoData, err, 500)

\* retryWithBackoff, lines 72-74 and 97: the head of the loop
RetryLoop(l, t) ==
  IF RetryLoopCond(l.i, l.maxRetries)
  THEN [l EXCEPT !.pc = "fetching", !.calls = @ + 1, !.reqAt = t]
  ELSE Throw(l, ExhaustedError(l.lastError))

\* retryWithBackoff(fn) is called with the default arguments (line 69)
RetryStart(l, t) ==
  RetryLoop([l EXCEPT !.i = 0, !.lastError = NoError, !.calls = 0,
                      !.maxRetries = DefaultMaxRetries,
                      !.initialDelay = DefaultInitialDelay], t)

\* mutation: after the last permitted attempt the error is thrown at once
RetryCatchNoLastSleep(l, err, t) ==
  LET l1 == [l EXCEPT !.lastError = err,
                      !.errs = IF l.route = "retry" THEN Append(@, err) ELSE @]
      w == RetryWaitTime(err, l.i, l.initialDelay)
  IN IF IsRateLimitClass(err) /\ l.i + 1 < l.maxRetries
     THEN [l1 EXCEPT !.pc = "retrySleep", !.wake = t + w,
                     !.sleeps = IF l.route = "retry" THEN Append(@, w) ELSE @]
     ELSE Throw(l1, err)
\* retryWithBackoff, lines 75-93: fn has thrown err on attempt l.i
RetryCatch(l, err, t) ==
  LET l1 == [l EXCEPT !.lastError = err,
                      !.errs = IF l.route = "retry" THEN Append(@, err) ELSE @]
      w == RetryWaitTime(err, l.i, l.initialDelay)
  IN IF IsRateLimitClass(err)
     THEN [l1 EXCEPT !.pc = "retrySleep", !.wake = t + w,
                     !.sleeps = IF l.route = "retry" THEN Append(@, w) ELSE @]
     ELSE Throw(l1, err)

\* fetchFigmaFrameData / exportFigmaImage, lines 120 and 165, with
\* waitForRateLimit up to its await (lines 44-50)
StartFetcher(l, last, t) ==
  LET l1 == [l EXCEPT !.rlRead = last, !.rlWaited = FALSE, !.acquired = 0,
                      !.reqAt = 0, !.lastStatus = 0, !.lastHdr = NoHeader] IN
  IF RateLimitMustWait(last, t)
  THEN [l |-> [l1 EXCEPT !.pc = "rlSleep", !.wake = t + RateLimitWaitTime(last, t),
                         !.rlWaited = TRUE],
        last |-> last]
  ELSE [l |-> RetryStart([l1 EXCEPT !.acquired = t], t), last |-> t]

\* performComparison is entered (server.js 540)
StartCompare(l) == [l EXCEPT !.pc = "comparing"]

\* getCached, lines 57-64: the lookup.  On a hit the data is returned at
\* once, on a miss the fetcher is called.
GetCachedLookup(l, key, ttl, c, t) ==
  LET l1 == [l EXCEPT !.key = key, !.ttl = ttl,
                      !.snapTs = IF key \in DOMAIN c THEN c[key].timestamp ELSE 0]
  IN IF CacheHit(c, key, t, ttl)
     THEN [l |-> [l1 EXCEPT !.hits = @ + 1], hit |-> TRUE, data |-> c[key].data]
     ELSE [l |-> [l1 EXCEPT !.fetched = @ + 1], hit |-> FALSE, data |-> NoData]

\* mutation: the time of the call is recorded before the cache is looked at
GetCachedFigmaAcquireFirst(l, kind, c, last, t) ==
  LET g == GetCachedLookup([l EXCEPT !.kind = kind],
                           CacheKey(kind, l.fileKey, l.nodeId), CACHE_TTL, c, t)
  IN IF g.hit THEN g @@ [last |-> t]
     ELSE StartFetcher(g.l, t, t) @@ [hit |-> FALSE, data |-> NoData]
\* getCached(key, fetcher) as the handlers call it, with the default ttl
\* and one of the two client operations as the fetcher
GetCachedFigma(l, kind, c, last, t) ==
  LET g == GetCachedLookup([l EXCEPT !.kind = kind],
                           CacheKey(kind, l.fileKey, l.nodeId), CACHE_TTL, c, t)
  IN IF g.hit THEN g @@ [last |-> last]
     ELSE StartFetcher(g.l, last, t) @@ [hit |-> FALSE, data |-> NoData]

\* POST /compare-ui, lines 532-546: the image URL, then the comparison
ImageStage(l, c, last, t) ==
  IF l.needImg
  THEN LET g == GetCachedFigma(l, "image", c, last, t) IN
       IF g.hit
       THEN [l |-> StartCompare([g.l EXCEPT !.img = g.data]), last |-> last]
       ELSE [l |-> g.l, last |-> g.last]
  ELSE [l |-> StartCompare(l), last |-> last]

\* what the caller does with the data the fetcher and getCached have
\* returned (lines 507, 529-538)
AfterData(l, data, c, last, t) ==
  IF l.route = "compare-ui"
  THEN IF l.kind = "frame"
       THEN ImageStage([l EXCEPT !.dims = data], c, last, t)
       ELSE [l |-> StartCompare([l EXCEPT !.img = data]), last |-> last]
  ELSE [l |-> Finish(l, TRUE, data, NoError, 200), last |-> last]

\* the first getCached of a handler (lines 502-505, 524-530)
FrameStage(l, c, last, t) ==
  LET g == GetCachedFigma(l, "frame", c, last, t) IN
  IF g.hit THEN AfterData(g.l, g.data, c, last, t)
  ELSE [l |-> g.l, last |-> g.last]

\* POST /figma-metadata (lines 491-512) up to its first suspension
FigmaMetadata(figmaUrl, hasToken, c, last, t) ==
  LET l0 == [IdleLoc EXCEPT !.route = "figma-metadata"]
      ref == parseFigmaUrl(figmaUrl)
      l1 == [l0 EXCEPT !.fileKey = ref.fileKey, !.nodeId = ref.nodeId]
      stay(l) == [l |-> l, last |-> last]
  IN IF ~Truthy(figmaUrl)
     THEN stay(Finish(l0, FALSE, NoData, Error(<<"Missing figmaUrl">>), 400))
     ELSE IF ~Truthy(ref.fileKey) \/ ~Truthy(ref.nodeId)
     THEN stay(Finish(l1, FALSE, NoData, Error(<<"Invalid Figma URL">>), 400))
     ELSE IF ~hasToken
     THEN stay(Finish(l1, FALSE, NoData, Error(<<"FIGMA_ACCESS_TOKEN not configured">>), 500))
     ELSE FrameStage(l1, c, last, t)

\* POST /compare-ui (lines 514-554) up to its first suspension
CompareUi(figmaUrl, hasWebsiteUrl, hasDims, hasImg, c, last, t) ==
  LET l0 == [IdleLoc EXCEPT !.route = "compare-ui"]
      ref == parseFigmaUrl(figmaUrl)
      l1 == [l0 EXCEPT !.fileKey = ref.fileKey, !.nodeId = ref.nodeId,
                       !.needImg = ~hasImg]
  IN IF ~Truthy(figmaUrl) \/ ~hasWebsiteUrl
     THEN [l |-> Finish(l0, FALSE, NoData, Error(<<"Missing logic">>), 400),
           last |-> last]
     ELSE IF ~hasDims THEN FrameStage(l1, c, last, t)
     ELSE ImageStage([l1 EXCEPT !.dims = FrameData(1, 1)], c, last, t)

(***************************************************************************)
(* Inputs                                                                  *)
(***************************************************************************)
\* https://www.figma.com/design/A/x?node-id=1-2 and variations
UrlDash == <<"H", "/", "d", "/", "A", "/", "x", "?", "N", "=", "1", "-", "2">>
UrlColon == <<"H", "/", "d", "/", "A", "/", "x", "?", "N", "=", "1", ":", "2">>
UrlNoNode == <<"H", "/", "d", "/", "A", "/", "x">>
UrlNoScheme == <<"d", "/", "A", "?", "N", "=", "1", "-", "2">>
\* the reference URLs the clients of one run send (<<>>: figmaUrl missing)
ReqUrlSets == {{<<>>, UrlDash, UrlColon}, {UrlNoNode}, {UrlNoScheme}}

Response(status, retryAfter, text) ==
  [status |-> status, retryAfter |-> retryAfter, text |-> text]
RetryAfterHeaders == {NoHeader, <<>>, <<"1">>, <<"0">>, <<"a">>, <<"2", "s">>, <<"-", "1">>}
ErrorTexts == {<<"o", "o", "p", "s">>, <<"e", "4", "2", "9">>}
Responses ==
  {Response(200, NoHeader, <<>>)}
    \cup {Response(429, h, <<>>) : h \in RetryAfterHeaders}
    \cup {Response(st, NoHeader, tx) : st \in {403, 404, 500}, tx \in ErrorTexts}
\* the responses used where two calls run concurrently
FewResponses ==
  {Response(200, NoHeader, <<>>), Response(429, <<"1">>, <<>>),
   Response(429, NoHeader, <<>>), Response(500, NoHeader, <<"o", "o", "p", "s">>)}

Body(present, w2, h2, val) == [present |-> present, w2 |-> w2, h2 |-> h2, val |-> val]
Bodies(kind) ==
  IF kind = "frame" THEN {Body(FALSE, 0, 0, ""), Body(TRUE, 3, 4, "")}
  ELSE {Body(FALSE, 0, 0, ""), Body(TRUE, 0, 0, "u1")}

(***************************************************************************)
(* The server                                                              *)
(***************************************************************************)
EmptyCache == [k \in {} |-> [data |-> NoData, timestamp |-> 0]]
NotParsed == [done |-> FALSE, fileKey |-> Null, nodeId |-> Null]

Boot ==
  /\ now = BootTime
  /\ ticks = 0
  /\ lastFigmaApiCall = 0
  /\ cache = EmptyCache
  /\ loc = [p \in Procs |-> IdleLoc]
  /\ minReqGap = MIN_API_CALL_INTERVAL
  /\ lastReqAt = 0
  /\ parsed = NotParsed

\* the server after start-up, about to receive requests for the URLs of one
\* of the request sets
Init == Boot /\ reqUrls \in ReqUrlSets /\ url = <<>> /\ cmp = IdleCmp
\* a harness that calls one function of the server directly
InitCalls == Boot /\ reqUrls = {} /\ url = <<>> /\ cmp = IdleCmp

\* call p has run up to its next suspension point with outcome g; when it
\* has called fetch(), the request is logged
Commit(p, g) ==
  /\ loc' = [loc EXCEPT ![p] = g.l]
  /\ lastFigmaApiCall' = g.last
  /\ IF g.l.pc = "fetching" /\ g.l.route # "retry"
     THEN /\ lastReqAt' = now
          /\ minReqGap' = IF lastReqAt = 0 THEN minReqGap
                          ELSE Min(minReqGap, now - lastReqAt)
     ELSE UNCHANGED <<lastReqAt, minReqGap>>

Stay(l) == [l |-> l, last |-> lastFigmaApiCall]

RequestMetadata(p) ==
  /\ loc[p].pc = "idle"
  /\ \E figmaUrl \in reqUrls, hasToken \in BOOLEAN :
       Commit(p, FigmaMetadata(figmaUrl, hasToken, cache, lastFigmaApiCall, now))
  /\ UNCHANGED <<now, ticks, cache, reqUrls, url, parsed, cmp>>

RequestCompare(p) ==
  /\ loc[p].pc = "idle"
  /\ \E figmaUrl \in reqUrls, hasWebsiteUrl, hasDims, hasImg \in BOOLEAN :
       Commit(p, CompareUi(figmaUrl, hasWebsiteUrl, hasDims, hasImg,
                           cache, lastFigmaApiCall, now))
  /\ UNCHANGED <<now, ticks, cache, reqUrls, url, parsed, cmp>>

\* waitForRateLimit, lines 50-53: the delay is over
RateLimitWake(p) ==
  /\ loc[p].pc = "rlSleep"
  /\ now >= loc[p].wake
  /\ Commit(p, [l |-> RetryStart([loc[p] EXCEPT !.acquired = now], now),
                last |-> now])
  /\ UNCHANGED <<now, ticks, cache, reqUrls, url, parsed, cmp>>

\* the response to fetch() arrives (lines 124-141, 169-186)
FetchRespond(p, RS) ==
  /\ loc[p].pc = "fetching"
  /\ loc[p].route # "retry"
  /\ \E res \in RS :
       LET l1 == [loc[p] EXCEPT !.lastStatus = res.status, !.lastHdr = res.retryAfter] IN
       Commit(p, Stay(IF ResOk(res) THEN [l1 EXCEPT !.pc = "body"]
                      ELSE RetryCatch(l1, FigmaFetchError(l1.kind, res), now)))
  /\ UNCHANGED <<now, ticks, cache, reqUrls, url, parsed, cmp>>

\* retryWithBackoff, lines 82-83 / 89-90: the delay is over, next attempt
RetryWake(p) ==
  /\ loc[p].pc = "retrySleep"
  /\ now >= loc[p].wake
  /\ Commit(p, Stay(RetryLoop([loc[p] EXCEPT !.i = @ + 1], now)))
  /\ UNCHANGED <<now, ticks, cache, reqUrls, url, parsed, cmp>>

\* response.json() resolves (lines 144-156, 189-192); the fetcher returns,
\* getCached stores the data (line 65) and the caller goes on
BodyArrive(p) ==
  /\ loc[p].pc = "body"
  /\ \E body \in Bodies(loc[p].kind) :
       LET r == BodyResult(loc[p].kind, body)
           c == IF loc[p].route = "fetcher" THEN cache
                ELSE CacheAfterFetch(cache, loc[p].key, r.ok, r.data, now)
       IN /\ cache' = c
          /\ IF r.ok THEN Commit(p, AfterData(loc[p], r.data, c, lastFigmaApiCall, now))
             ELSE Commit(p, Stay(Throw(loc[p], r.err)))
  /\ UNCHANGED <<now, ticks, reqUrls, url, parsed, cmp>>

\* performComparison returns or throws (lines 540-553)
CompareSettle(p) ==
  /\ loc[p].pc = "comparing"
  /\ \E ok \in BOOLEAN :
       Commit(p, Stay(IF ok THEN Finish(loc[p], TRUE, NoData, NoError, 200)
                      ELSE Throw(loc[p], Error(<<"comparison failed">>))))
  /\ UNCHANGED <<now, ticks, cache, reqUrls, url, parsed, cmp>>

\* the timers that are pending
Deadlines == {loc[p].wake : p \in {q \in Procs : loc[q].pc \in {"rlSleep", "retrySleep"}}}

\* time passes: by a step of Deltas or up to a pending timer
Tick ==
  /\ \E t \in {now + d : d \in Deltas} \cup Deadlines :
       /\ t > now
       /\ t <= BootTime + Horizon
       /\ now' = t
  /\ UNCHANGED <<ticks, lastFigmaApiCall, cache, loc, minReqGap, lastReqAt, reqUrls, url, parsed, cmp>>

\* the server handling one request at a time
Next ==
  \/ RequestMetadata("p1")
  \/ RequestCompare("p1")
  \/ RateLimitWake("p1")
  \/ FetchRespond("p1", Responses)
  \/ RetryWake("p1")
  \/ BodyArrive("p1")
  \/ CompareSettle("p1")
  \/ Tick

Spec == Init /\ [][Next]_vars

(***************************************************************************)
(* The two client operations called at any time by concurrent callers      *)
(***************************************************************************)
CallFetcher(p) ==
  /\ loc[p].pc = "idle"
  /\ \E kind \in {"frame", "image"} :
       Commit(p, StartFetcher([IdleLoc EXCEPT !.route = "fetcher", !.kind = kind],
                              lastFigmaApiCall, now))
  /\ UNCHANGED <<now, ticks, cache, reqUrls, url, parsed, cmp>>

NextLimiter ==
  \/ \E p \in Procs : CallFetcher(p)
  \/ \E p \in Procs : RateLimitWake(p)
  \/ \E p \in Procs : FetchRespond(p, FewResponses)
  \/ \E p \in Procs : RetryWake(p)
  \/ \E p \in Procs : BodyArrive(p)
  \/ Tick

SpecLimiter == InitCalls /\ [][NextLimiter]_vars

(***************************************************************************)
(* retryWithBackoff called on its own with any arguments and any fn        *)
(***************************************************************************)
InitialDelays == {DefaultInitialDelay, 500}
FnErrors ==
  {RateLimitError(<<"r">>, 5000), RateLimitError(<<"r">>, 1000),
   RateLimitError(<<"r">>, 999), Error(<<"e", "4", "2", "9">>),
   Error(<<"4", "2", "x", "9">>), ThrownValue(<<"4", "2", "9">>)}
FnOutcomes ==
  {[ok |-> TRUE, data |-> ValueData("v1"), err |-> NoError]}
    \cup {[ok |-> FALSE, data |-> NoData, err |-> e] : e \in FnErrors}

RetryCall(p) ==
  /\ loc[p].pc = "idle"
  /\ loc[p].route = "none"
  /\ \E maxRetries \in 0..MaxRetriesArg, initialDelay \in InitialDelays :
       Commit(p, Stay(RetryLoop([IdleLoc EXCEPT !.route = "retry",
                                                !.maxRetries = maxRetries,
                                                !.initialDelay = initialDelay], now)))
  /\ UNCHANGED <<now, ticks, cache, reqUrls, url, parsed, cmp>>

\* the promise returned by fn() settles (line 74)
FnSettle(p) ==
  /\ loc[p].pc = "fetching"
  /\ loc[p].route = "retry"
  /\ \E o \in FnOutcomes :
       Commit(p, Stay(IF o.ok THEN Finish(loc[p], TRUE, o.data, NoError, 0)
                      ELSE RetryCatch(loc[p], o.err, now)))
  /\ UNCHANGED <<now, ticks, cache, reqUrls, url, parsed, cmp>>

\* time passes until a pending timer is due
TickTimer ==
  /\ \E t \in Deadlines : t > now /\ now' = t
  /\ UNCHANGED <<ticks, lastFigmaApiCall, cache, loc, minReqGap, lastReqAt, reqUrls, url, parsed, cmp>>

NextRetry ==
  \/ RetryCall("p1")
  \/ FnSettle("p1")
  \/ RetryWake("p1")
  \/ TickTimer

SpecRetry == InitCalls /\ [][NextRetry]_vars

(***************************************************************************)
(* getCached called on its own, one call after the other, with any fetcher *)
(***************************************************************************)
GenericKeys == {<<"k1">>, <<"k2">>}
Ttls == {CACHE_TTL, 2000}
CacheDeltas == {1000, CACHE_TTL - 1000}
FetcherOutcomes ==
  {[ok |-> TRUE, data |-> ValueData(v), err |-> NoError] : v \in {"v1", "v2"}}
    \cup {[ok |-> FALSE, data |-> NoData, err |-> Error(<<"b", "o", "o", "m">>)]}

\* mutation: a call that finds the fetcher of another call pending for its
\* key waits for that one instead of calling its own
GetCachedCallSingleFlight(p) ==
  /\ loc[p].pc = "idle"
  /\ \E key \in GenericKeys, ttl \in Ttls :
       LET g == GetCachedLookup([IdleLoc EXCEPT !.route = "getCached",
                                                !.startedAt = now],
                                key, ttl, cache, now)
           pending == \E q \in Procs : loc[q].pc = "fetcher" /\ loc[q].key = key
       IN Commit(p, Stay(IF g.hit THEN Finish(g.l, TRUE, g.data, NoError, 0)
                         ELSE IF pending
                         THEN Finish([g.l EXCEPT !.fetched = 0], TRUE, NoData, NoError, 0)
                         ELSE [g.l EXCEPT !.pc = "fetcher"]))
  /\ UNCHANGED <<now, ticks, cache, reqUrls, url, parsed, cmp>>

GetCachedCall(p) ==
  /\ loc[p].pc = "idle"
  /\ \E key \in GenericKeys, ttl \in Ttls :
       LET g == GetCachedLookup([IdleLoc EXCEPT !.route = "getCached",
                                                !.startedAt = now],
                                key, ttl, cache, now)
       IN Commit(p, Stay(IF g.hit THEN Finish(g.l, TRUE, g.data, NoError, 0)
                         ELSE [g.l EXCEPT !.pc = "fetcher"]))
  /\ UNCHANGED <<now, ticks, cache, reqUrls, url, parsed, cmp>>

\* mutation: a result is not stored when an entry has been stored for the
\* key since the call looked it up
FetcherSettleFirstWins(p) ==
  /\ loc[p].pc = "fetcher"
  /\ \E o \in FetcherOutcomes :
       LET l1 == [loc[p] EXCEPT !.got = o, !.settledAt = now]
           stored == /\ l1.key \in DOMAIN cache
                     /\ cache[l1.key].timestamp # l1.snapTs
       IN
       /\ cache' = IF stored THEN cache
                   ELSE CacheAfterFetch(cache, l1.key, o.ok, o.data, now)
       /\ Commit(p, Stay(IF o.ok THEN Finish(l1, TRUE, o.data, NoError, 0)
                         ELSE Throw(l1, o.err)))
  /\ UNCHANGED <<now, ticks, reqUrls, url, parsed, cmp>>
\* the promise returned by fetcher() settles (lines 64-66)
FetcherSettle(p) ==
  /\ loc[p].pc = "fetcher"
  /\ \E o \in FetcherOutcomes :
       LET l1 == [loc[p] EXCEPT !.got = o, !.settledAt = now] IN
       /\ cache' = CacheAfterFetch(cache, l1.key, o.ok, o.data, now)
       /\ Commit(p, Stay(IF o.ok THEN Finish(l1, TRUE, o.data, NoError, 0)
                         ELSE Throw(l1, o.err)))
  /\ UNCHANGED <<now, ticks, reqUrls, url, parsed, cmp>>

TickCache ==
  /\ ticks < MaxTicks
  /\ \E d \in CacheDeltas : now' = now + d
  /\ ticks' = ticks + 1
  /\ UNCHANGED <<lastFigmaApiCall, cache, loc, minReqGap, lastReqAt, reqUrls, url, parsed, cmp>>

NextCache ==
  \/ GetCachedCall("p1")
  \/ FetcherSettle("p1")
  \/ TickCache

SpecCache == InitCalls /\ [][NextCache]_vars

\* getCached called by concurrent callers
TickRace ==
  /\ ticks < MaxRaceTicks
  /\ \E d \in Deltas : now' = now + d
  /\ ticks' = ticks + 1
  /\ UNCHANGED <<lastFigmaApiCall, cache, loc, minReqGap, lastReqAt, reqUrls, url, parsed, cmp>>

NextCacheRace ==
  \/ \E p \in Procs : GetCachedCall(p)
  \/ \E p \in Procs : FetcherSettle(p)
  \/ TickRace

SpecCacheRace == InitCalls /\ [][NextCacheRace]_vars

(***************************************************************************)
(* parseFigmaUrl applied to any URL string                                 *)
(***************************************************************************)
UrlPrefixes == {<<>>, <<"H">>}
UrlPaths ==
  {<<>>, <<"/">>, <<"/", "d">>, <<"/", "d", "/">>, <<"/", "d", "/", "A">>,
   <<"/", "d", "/", "A", "/", "x">>, <<"/", "d", "/", "/", "x">>,
   <<"/", "d", "/", "A", "-", "B", "/", "x">>}
UrlQueries ==
  {<<>>, <<"?">>, <<"?", "N">>, <<"?", "N", "=">>,
   <<"?", "N", "=", "1", "-", "2">>, <<"?", "N", "=", "1", ":", "2">>,
   <<"?", "t", "=", "1", "&", "N", "=", "1", "-", "2", "-", "3">>,
   <<"?", "t", "=", "1", "-", "2">>,
   <<"?", "N", "=", "7", "&", "N", "=", "1", "-", "2">>}
UrlInputs == {a \o b \o c : a \in UrlPrefixes, b \in UrlPaths, c \in UrlQueries}

ParseUrl ==
  /\ ~parsed.done
  /\ parsed' = [done |-> TRUE] @@ parseFigmaUrl(url)
  /\ UNCHANGED <<now, ticks, lastFigmaApiCall, cache, loc, minReqGap, lastReqAt, reqUrls, url, cmp>>

NextParse == ParseUrl


\* parseFigmaUrl about to be applied to a URL string
InitParse == Boot /\ reqUrls = {} /\ url \in UrlInputs /\ cmp = IdleCmp
SpecParse == InitParse /\ [][NextParse]_vars

(***************************************************************************)
(* performComparison and analyzeImageDifferences called on given images    *)
(***************************************************************************)
\* performComparison up to the download of the reference image (line 415)
CompareCall ==
  /\ cmp.stage = "idle"
  /\ cmp' = IF cmp.inp.shotState # "ok"
            THEN [cmp EXCEPT !.stage = "done",
                             !.res = Failed(ScreenshotError(cmp.inp.shotState))]
            ELSE [cmp EXCEPT !.stage = "download"]
  /\ UNCHANGED <<now, ticks, lastFigmaApiCall, cache, loc, minReqGap, lastReqAt, reqUrls, url, parsed>>

\* the reference image arrives (lines 415-431) and the comparison runs to
\* its end (lines 433-483)
FigmaImageArrive ==
  /\ cmp.stage = "download"
  /\ \E outcome \in {"ok", "status", "malformed"} :
       IF outcome = "status"
       THEN cmp' = [cmp EXCEPT !.stage = "done",
                               !.res = Failed("Failed to download Figma image")]
       ELSE IF outcome = "malformed"
       THEN cmp' = [cmp EXCEPT !.stage = "done", !.res = Failed("Invalid file signature")]
       ELSE LET pm == PixelmatchCall(cmp.inp.shot, cmp.inp.figma, cmp.inp.dims) IN
            IF PixelmatchThrows(pm.img1.len, pm.img2.len, pm.outputLen, pm.width, pm.height)
            THEN cmp' = [cmp EXCEPT !.stage = "done",
                                    !.res = Failed("Image data: Buffer expected")]
            ELSE \E n \in PixelmatchCounts(pm.img1, pm.img2, pm.width, pm.height) :
                   cmp' = [cmp EXCEPT !.stage = "done",
                                      !.res = CompareDecoded(cmp.inp.shot, cmp.inp.figma,
                                                             cmp.inp.dims, cmp.s, n)]
  /\ UNCHANGED <<now, ticks, lastFigmaApiCall, cache, loc, minReqGap, lastReqAt, reqUrls, url, parsed>>

\* the result of analyzeImageDifferences on the two buffers as they are
Analysis(inp, sensitivity) ==
  LET a == analyzeImageDifferences(inp.shot, inp.figma, inp.dims.width, inp.dims.height,
                                   sensitivity)
  IN [NoComparison EXCEPT !.ok = TRUE, !.width = inp.dims.width,
                          !.height = inp.dims.height,
                          !.pixels = inp.dims.width * inp.dims.height,
                          !.issues = a.issues, !.active = a.active,
                          !.clusters = a.clusters,
                          !.found = a.found, !.derived = a.derived,
                          !.analyzerOutside =
                            Cardinality(AnalyzerReadsOutside(inp.shot, inp.figma,
                                                             inp.dims.width,
                                                             inp.dims.height)),
                          !.len1 = inp.shot.len, !.len2 = inp.figma.len]

\* analyzeImageDifferences called with the two buffers and a size
AnalyzeCall ==
  /\ cmp.stage = "idle"
  /\ cmp.inp.shotState = "ok"
  /\ cmp.inp.dims.width >= 1 /\ cmp.inp.dims.height >= 1
  /\ cmp' = [cmp EXCEPT !.stage = "analyzed", !.res = Analysis(cmp.inp, cmp.s)]
  /\ UNCHANGED <<now, ticks, lastFigmaApiCall, cache, loc, minReqGap, lastReqAt, reqUrls, url, parsed>>

\* the same buffers analyzed again at a higher sensitivity level
AnalyzeStricter ==
  /\ cmp.stage = "analyzed"
  /\ cmp.s >= 1 /\ cmp.s < 5
  /\ \E s2 \in (cmp.s + 1)..5 :
       cmp' = [cmp EXCEPT !.s = s2, !.res = Analysis(cmp.inp, s2),
                          !.prev = [s |-> cmp.s, issues |-> cmp.res.issues,
                                    active |-> cmp.res.active,
                                    derived |-> cmp.res.derived]]
  /\ UNCHANGED <<now, ticks, lastFigmaApiCall, cache, loc, minReqGap, lastReqAt, reqUrls, url, parsed>>

NextImage ==
  \/ CompareCall
  \/ FigmaImageArrive
  \/ AnalyzeCall
  \/ AnalyzeStricter

InitImage ==
  /\ Boot /\ reqUrls = {} /\ url = <<>>
  /\ \E inp \in ImagePairs, s \in Sensitivities :
       cmp = [IdleCmp EXCEPT !.stage = "idle", !.inp = inp, !.s = s]
SpecImage == InitImage /\ [][NextImage]_vars

(***************************************************************************)
(* analyzeImageDifferences called on images drawn block by block: 41 x 41  *)
(* pixels are three rows of three blocks, the last row and column one      *)
(* pixel wide, and each block is white or black against a black reference  *)
(***************************************************************************)
GridImages ==
  {Images("ok", Decoded(41, 41, Pattern("grid", n, White, Black)),
          Decoded(41, 41, SolidBlack), Dims(41, 41)) : n \in 0..(Pow2(GridBlocks) - 1)}

NextGrid == AnalyzeCall

InitGrid ==
  /\ Boot /\ reqUrls = {} /\ url = <<>>
  /\ \E inp \in GridImages :
       cmp = [IdleCmp EXCEPT !.stage = "idle", !.inp = inp, !.s = 3]
SpecGrid == InitGrid /\ [][NextGrid]_vars

(***************************************************************************)
(* analyzeImageDifferences from line 279 on, for given active blocks: one  *)
(* angle of blocks (a column and the row at its foot) in a corner of a     *)
(* 281 x 201 area (15 x 11 blocks, the last row and column one pixel       *)
(* wide), or up to MaxStacked angles one below the other, a free row       *)
(* between them, in an area 255 pixels wide (13 columns, the last 15       *)
(* pixels wide)                                                            *)
(***************************************************************************)
\* the blocks of the angle that spans w columns and h rows from (x0, y0)
AngleBlocks(x0, y0, w, h, blocksX) ==
  {y * blocksX + x0 : y \in y0..(y0 + h - 1)}
    \cup {(y0 + h - 1) * blocksX + x : x \in x0..(x0 + w - 1)}

BlockGrid(width, height, active) ==
  [NoComparison EXCEPT !.width = width, !.height = height,
                       !.pixels = width * height, !.active = active]

SingleAngles ==
  {BlockGrid(281, 201, AngleBlocks(0, 0, w, h, 15)) : w \in 1..15, h \in 1..11}
    \cup {BlockGrid(281, 201, AngleBlocks(15 - w, 11 - h, w, h, 15)) :
            w \in 1..15, h \in 1..11}

\* the sizes in blocks of the stacked angles, taken in turn
Shapes ==
  <<[w |-> 1, h |-> 1], [w |-> 13, h |-> 10], [w |-> 2, h |-> 1],
    [w |-> 6, h |-> 5], [w |-> 3, h |-> 1], [w |-> 1, h |-> 2], [w |-> 13, h |-> 2]>>
ShapeAt(k, r) == Shapes[((k + r) % Len(Shapes)) + 1]

RECURSIVE StackRows(_, _)
\* the number of rows n stacked angles take, the free rows included
StackRows(n, r) ==
  IF n = 0 THEN 0 ELSE StackRows(n - 1, r) + ShapeAt(n - 1, r).h + 1

Stacked(n, r) ==
  BlockGrid(255, 20 * Max(1, StackRows(n, r) - 1),
            UNION {AngleBlocks(0, StackRows(k, r), ShapeAt(k, r).w, ShapeAt(k, r).h, 13) :
                     k \in 0..(n - 1)})

StackedAngles ==
  {Stacked(n, r) : n \in {0, 1, 7, 19, 20, 21, MaxStacked}, r \in 0..(Len(Shapes) - 1)}

ReportCall ==
  /\ cmp.stage = "blocks"
  /\ LET a == ReportActiveBlocks(cmp.res.active, cmp.res.width, cmp.res.height, cmp.s)
     IN cmp' = [cmp EXCEPT !.stage = "reported",
                           !.res = [cmp.res EXCEPT !.ok = TRUE, !.issues = a.issues,
                                                   !.clusters = a.clusters,
                                                   !.found = a.found,
                                                   !.derived = a.derived]]
  /\ UNCHANGED <<now, ticks, lastFigmaApiCall, cache, loc, minReqGap, lastReqAt, reqUrls, url, parsed>>

NextBlocks == ReportCall

InitBlocks ==
  /\ Boot /\ reqUrls = {} /\ url = <<>>
  /\ \E grid \in SingleAngles \cup StackedAngles, s \in Sensitivities :
       cmp = [IdleCmp EXCEPT !.stage = "blocks", !.s = s, !.res = grid]
SpecBlocks == InitBlocks /\ [][NextBlocks]_vars

(***************************************************************************)
(* waitForRateLimit called on its own by concurrent callers                *)
(***************************************************************************)
\* mutation: a caller that would have to wait is rejected
WaitForRateLimitRejects(l, last, t) ==
  LET l1 == [l EXCEPT !.rlRead = last] IN
  IF RateLimitMustWait(last, t)
  THEN [l |-> [l1 EXCEPT !.result = [ok |-> FALSE, data |-> NoData,
                                     err |-> Error(<<"rate limited">>)]],
        last |-> last]
  ELSE [l |-> [l1 EXCEPT !.acquired = t, !.result = [ok |-> TRUE, data |-> NoData,
                                                     err |-> NoError]],
        last |-> t]
\* waitForRateLimit (lines 43-54) up to its await, or to its end when there
\* is nothing to wait for
WaitForRateLimit(l, last, t) ==
  LET l1 == [l EXCEPT !.rlRead = last] IN
  IF RateLimitMustWait(last, t)
  THEN [l |-> [l1 EXCEPT !.pc = "rlSleep", !.wake = t + RateLimitWaitTime(last, t),
                         !.rlWaited = TRUE],
        last |-> last]
  ELSE [l |-> [l1 EXCEPT !.acquired = t, !.result = [ok |-> TRUE, data |-> NoData,
                                                     err |-> NoError]],
        last |-> t]

\* mutation: a caller that need not wait is suspended between the test of
\* the interval and the update of the timestamp
AcquireCallSuspends(p) ==
  /\ loc[p].pc = "idle"
  /\ now <= BootTime + Horizon
  /\ Commit(p, IF RateLimitMustWait(lastFigmaApiCall, now)
               THEN WaitForRateLimit([IdleLoc EXCEPT !.route = "acquire"],
                                     lastFigmaApiCall, now)
               ELSE Stay([IdleLoc EXCEPT !.route = "acquire", !.pc = "rlSleep",
                                         !.rlRead = lastFigmaApiCall, !.wake = now]))
  /\ UNCHANGED <<now, ticks, cache, reqUrls, url, parsed, cmp>>
\* waitForRateLimit is called (lines 43-54)
AcquireCall(p) ==
  /\ loc[p].pc = "idle"
  /\ now <= BootTime + Horizon
  /\ Commit(p, WaitForRateLimit([IdleLoc EXCEPT !.route = "acquire"],
                                lastFigmaApiCall, now))
  /\ UNCHANGED <<now, ticks, cache, reqUrls, url, parsed, cmp>>

\* lines 50-53: the delay is over, the call records the time and returns
AcquireWake(p) ==
  /\ loc[p].pc = "rlSleep"
  /\ loc[p].route = "acquire"
  /\ now >= loc[p].wake
  /\ Commit(p, [l |-> [loc[p] EXCEPT !.pc = "idle", !.acquired = now, !.wake = 0,
                                     !.result = [ok |-> TRUE, data |-> NoData,
                                                 err |-> NoError]],
                last |-> now])
  /\ UNCHANGED <<now, ticks, cache, reqUrls, url, parsed, cmp>>

\* time passes: by a step of Deltas within the horizon, or up to a pending
\* timer
TickAcquire ==
  /\ \E t \in {now + d : d \in Deltas} \cup Deadlines :
       /\ t > now
       /\ (t <= BootTime + Horizon \/ t \in Deadlines)
       /\ now' = t
  /\ UNCHANGED <<ticks, lastFigmaApiCall, cache, loc, minReqGap, lastReqAt, reqUrls, url, parsed, cmp>>

NextAcquire ==
  \/ \E p \in Procs : AcquireCall(p)
  \/ \E p \in Procs : AcquireWake(p)
  \/ TickAcquire

\* timers fire and the event loop resumes a call whose delay is over
SpecAcquire ==
  /\ InitCalls /\ [][NextAcquire]_vars
  /\ WF_vars(TickAcquire)
  /\ \A p \in Procs : WF_vars(AcquireWake(p))

(***************************************************************************)
(* Properties                                                              *)
(***************************************************************************)
Handlers == {"figma-metadata", "compare-ui"}
Last(q) == q[Len(q)]

\* C1 as stated: any two requests to the design API, retries included and
\* from whatever callers, are issued at least MIN_API_CALL_INTERVAL apart.
C1_AllRequestsSpaced == minReqGap >= MIN_API_CALL_INTERVAL

\* C1 amended: an operation's first request is issued at least
\* MIN_API_CALL_INTERVAL after the last-call timestamp its waitForRateLimit
\* read on entry, and each retry request at least 1000 ms after the
\* operation's previous request.
C1_FirstRequestSpaced ==
  [][\A p \in Procs :
       (loc'[p].pc = "fetching" /\ loc[p].pc # "fetching")
         => IF loc[p].pc = "retrySleep"
            THEN now - loc[p].reqAt >= 1000
            ELSE /\ now - loc'[p].rlRead >= 3000
                 /\ lastFigmaApiCall' = now]_vars

C1_Witness ==
  \E p \in Procs : /\ loc[p].pc = "fetching" /\ loc[p].rlWaited /\ loc[p].calls >= 2
                   /\ minReqGap < 3000

\* C2: of two acquisitions made one after the other, the second records an
\* instant at least 3000 ms after the one the first recorded; the first
\* call of the process (timestamp still 0) does not wait.
C2_SequentialAcquire ==
  \A p \in {"p1"} :
    loc[p].acquired # 0 =>
      /\ loc[p].acquired = lastFigmaApiCall
      /\ loc[p].acquired - loc[p].rlRead >= 3000
      /\ (loc[p].rlRead = 0 => ~loc[p].rlWaited)

C2_Witness ==
  /\ loc["p1"].acquired # 0 /\ loc["p1"].rlRead # 0 /\ loc["p1"].rlWaited
  /\ loc["p1"].acquired - loc["p1"].rlRead = 3000

\* C3: getCached returns the stored data without calling the fetcher iff
\* an entry exists and now - timestamp < ttl; otherwise (no entry, or
\* now - timestamp >= ttl) it calls the fetcher once, stores the fetched
\* data with the time of completion and returns the fetched data.
C3_HitIffFresh ==
  [][\A p \in Procs :
       /\ (loc[p].pc = "idle" /\ loc'[p] # loc[p]) =>
            LET l == loc'[p] IN
            IF l.key \in DOMAIN cache /\ now - cache[l.key].timestamp < l.ttl
            THEN /\ l.pc = "idle" /\ l.result.ok /\ l.fetched = 0
                 /\ l.result.data = cache[l.key].data
                 /\ cache' = cache
            ELSE l.pc = "fetcher" /\ l.fetched = 1
       /\ (loc[p].pc = "fetcher" /\ loc'[p].pc = "idle" /\ loc'[p].got.ok) =>
            LET l == loc'[p] IN
            /\ l.fetched = 1
            /\ l.key \in DOMAIN cache'
            /\ cache'[l.key] = [data |-> l.got.data, timestamp |-> now]
            /\ l.result.ok /\ l.result.data = l.got.data]_vars

\* a call made exactly ttl after the entry was stored has called the fetcher
C3_Witness ==
  \E p \in Procs :
    /\ loc[p].pc = "fetcher"
    /\ loc[p].key \in DOMAIN cache
    /\ now - cache[loc[p].key].timestamp = loc[p].ttl

\* C4: when the fetcher rejects, getCached rejects with the same error and
\* the cache is unchanged (no new entry, a stale entry kept as it was), so
\* the key is still a miss for the next call.
C4_FailureNotCached ==
  [][\A p \in Procs :
       (loc[p].pc = "fetcher" /\ loc'[p].pc = "idle" /\ ~loc'[p].got.ok) =>
          LET l == loc'[p] IN
          /\ cache' = cache
          /\ ~l.result.ok /\ l.result.err = l.got.err
          /\ ~(l.key \in DOMAIN cache' /\ now - cache'[l.key].timestamp < l.ttl)]_vars

\* a rejected refresh of a stale entry: the entry is still there
C4_Witness ==
  \E p \in Procs :
    /\ loc[p].pc = "idle" /\ loc[p].route = "getCached"
    /\ loc[p].got.err.type = "Error" /\ ~loc[p].result.ok
    /\ loc[p].key \in DOMAIN cache
    /\ cache[loc[p].key].timestamp = loc[p].snapTs

\* the errors the retry policy counts as rate limiting: a RateLimited error,
\* or a generic error whose message indicates HTTP 429
RateLimitClass(e) ==
  \/ e.type = "RateLimitError"
  \/ e.type = "Error" /\ \E k \in 1..Len(e.message) - 2 :
                            <<e.message[k], e.message[k + 1], e.message[k + 2]>>
                              = <<"4", "2", "9">>

\* C5: a failure of fn that is not of the rate-limit class is rethrown at
\* once: the call has ended with that error, no sleep followed it and fn
\* was not invoked again.
C5_OtherErrorsNotRetried ==
  \A p \in Procs :
    (loc[p].route = "retry" /\ loc[p].errs # <<>> /\ ~RateLimitClass(Last(loc[p].errs)))
      => /\ loc[p].pc = "idle"
         /\ ~loc[p].result.ok /\ loc[p].result.err = Last(loc[p].errs)
         /\ loc[p].calls = Len(loc[p].errs)
         /\ Len(loc[p].sleeps) = Len(loc[p].errs) - 1

C5_Witness ==
  \E p \in Procs :
    /\ loc[p].route = "retry" /\ Len(loc[p].errs) >= 2
    /\ Last(loc[p].errs).type = "Error" /\ ~RateLimitClass(Last(loc[p].errs))
    /\ loc[p].calls < loc[p].maxRetries

\* C6: fn is never invoked more than maxRetries times; when every
\* invocation failed with a rate-limit-class error the call ends after
\* exactly maxRetries invocations with the error of the last one; when an
\* invocation succeeds the call ends with its result at once.
C6_BoundedRetries ==
  \A p \in Procs :
    loc[p].route = "retry" =>
      /\ loc[p].calls <= loc[p].maxRetries
      /\ (loc[p].pc = "idle" /\ Len(loc[p].errs) = loc[p].calls
            /\ \A k \in 1..Len(loc[p].errs) : RateLimitClass(loc[p].errs[k]))
           => /\ loc[p].calls = loc[p].maxRetries
              /\ ~loc[p].result.ok
              /\ (loc[p].calls >= 1 => loc[p].result.err = Last(loc[p].errs))
      /\ (loc[p].calls > Len(loc[p].errs) /\ loc[p].pc # "fetching")
           => /\ loc[p].pc = "idle" /\ loc[p].result.ok
              /\ loc[p].result.data = ValueData("v1")
              /\ loc[p].calls = Len(loc[p].errs) + 1

C6_Witness ==
  \E p \in Procs :
    /\ loc[p].route = "retry" /\ loc[p].pc = "idle"
    /\ loc[p].maxRetries = 5 /\ loc[p].calls = 5 /\ Len(loc[p].errs) = 5
    /\ ~loc[p].result.ok /\ RateLimitClass(loc[p].result.err)

\* C7: after failed attempt i (0-indexed) the sleep is error.retryAfter for a
\* RateLimited error carrying a wait >= 1000 ms, and baseDelay * 2^i for a
\* RateLimited error carrying less or a generic 429 error.
C7_BackoffDurations ==
  \A p \in Procs :
    loc[p].route = "retry" =>
      /\ Len(loc[p].sleeps) <= Len(loc[p].errs)
      /\ \A k \in 1..Len(loc[p].sleeps) :
           LET e == loc[p].errs[k] IN
           /\ (e.type = "RateLimitError" /\ e.retryAfter >= 1000)
                => loc[p].sleeps[k] = e.retryAfter
           /\ ~(e.type = "RateLimitError" /\ e.retryAfter >= 1000)
                => loc[p].sleeps[k] = loc[p].initialDelay * (2 ^ (k - 1))
      /\ loc[p].pc = "retrySleep"
           => /\ Len(loc[p].sleeps) = loc[p].i + 1
              /\ loc[p].wake - Last(loc[p].sleeps) >= loc[p].reqAt
              /\ loc[p].wake - Last(loc[p].sleeps) <= now

C7_Witness ==
  \E p \in Procs :
    /\ loc[p].route = "retry" /\ loc[p].initialDelay = 2000
    /\ Len(loc[p].sleeps) >= 3
    /\ loc[p].sleeps[1] = 2000 /\ loc[p].sleeps[2] = 4000 /\ loc[p].sleeps[3] = 5000

\* C8: a response whose status is not 429 is never retried, whatever its
\* body: a client operation waits for a retry only after a 429.
C8_Non429NeverRetried ==
  \A p \in Procs :
    (loc[p].route \in Handlers /\ loc[p].pc = "retrySleep") => loc[p].lastStatus = 429

\* the Retry-After values of the model that are an integer second count
HeaderSeconds ==
  [h \in {<<"1">>, <<"0">>, <<"2", "s">>, <<"-", "1">>} |->
     CASE h = <<"1">> -> 1 [] h = <<"0">> -> 0 [] h = <<"2", "s">> -> 2
       [] h = <<"-", "1">> -> 0 - 1]

\* C9: on a 429 the client raises a RateLimited error carrying
\* seconds * 1000 when Retry-After is present and parses as an integer,
\* and otherwise a generic error whose message contains 429, after which
\* the retry sleeps baseDelay * 2^attempt.
C9_RateLimitedFrom429 ==
  [][\A p \in Procs :
       (loc[p].pc = "fetching" /\ loc[p].route \in Handlers
          /\ loc'[p].pc # "fetching" /\ loc'[p].lastStatus = 429) =>
         LET l == loc'[p] IN
         /\ l.pc = "retrySleep"
         /\ IF l.lastHdr \in DOMAIN HeaderSeconds
            THEN /\ l.lastError.type = "RateLimitError"
                 /\ l.lastError.retryAfter = HeaderSeconds[l.lastHdr] * 1000
            ELSE /\ l.lastError.type = "Error"
                 /\ RateLimitClass(l.lastError)
                 /\ l.wake = now + 2000 * (2 ^ l.i)]_vars

C9_Witness ==
  \E p \in Procs :
    /\ loc[p].route \in Handlers /\ loc[p].pc = "retrySleep"
    /\ loc[p].lastStatus = 429 /\ loc[p].lastHdr = <<"2", "s">>
    /\ loc[p].lastError = RateLimitError(<<"Figma API rate limit exceeded">>, 2000)

\* the paths of UrlPaths with a non-empty third segment, the queries of
\* UrlQueries with a node-id parameter
PathsWithFileKey ==
  {<<"/", "d", "/", "A">>, <<"/", "d", "/", "A", "/", "x">>,
   <<"/", "d", "/", "A", "-", "B", "/", "x">>}
QueriesWithoutNodeId == {<<>>, <<"?">>, <<"?", "t", "=", "1", "-", "2">>}

\* C10 as stated: both are null whenever the URL is unparsable or either
\* piece is missing; never exactly one of the two is null.
C10_BothNullOrNone ==
  parsed.done => ((parsed.fileKey = Null) <=> (parsed.nodeId = Null))

\* C10 amended: both are null when the URL is unparsable; for a parsable
\* URL fileKey is null iff the third path segment is missing or empty and
\* nodeId is null iff there is no node-id parameter, each on its own.
C10_NullPerPiece ==
  parsed.done =>
    \A a \in UrlPrefixes, b \in UrlPaths, c \in UrlQueries :
      url = a \o b \o c =>
        IF a = <<>> THEN parsed.fileKey = Null /\ parsed.nodeId = Null
        ELSE /\ (parsed.fileKey = Null) <=> (b \notin PathsWithFileKey)
             /\ (parsed.nodeId = Null) <=> (c \in QueriesWithoutNodeId)

C10_Witness ==
  parsed.done /\ parsed.fileKey = Null /\ parsed.nodeId = <<"1", ":", "2">>

\* the paths of UrlPaths of the form /design/<fileKey>/<name> with their
\* file key, the queries of UrlQueries holding one node-id=<id> with the id
\* in which every "-" is a ":"
DesignPathKey ==
  [b \in {<<"/", "d", "/", "A", "/", "x">>, <<"/", "d", "/", "A", "-", "B", "/", "x">>} |->
     IF b = <<"/", "d", "/", "A", "/", "x">> THEN <<"A">> ELSE <<"A", "-", "B">>]
NodeIdQueryId ==
  [c \in {<<"?", "N", "=", "1", "-", "2">>, <<"?", "N", "=", "1", ":", "2">>,
          <<"?", "t", "=", "1", "&", "N", "=", "1", "-", "2", "-", "3">>} |->
     IF c = <<"?", "t", "=", "1", "&", "N", "=", "1", "-", "2", "-", "3">>
     THEN <<"1", ":", "2", ":", "3">> ELSE <<"1", ":", "2">>]

\* C11: for a parsable URL with path /design/<fileKey>/<name> and query
\* node-id=<id>, parseFigmaUrl returns that fileKey and the id with every
\* "-" replaced by ":"; the cache keys built from the result are
\* frame-data-<fileKey>-<nodeId> and figma-image-<fileKey>-<nodeId> with
\* that normalised id, so URLs that differ only in "-" versus ":" in the
\* node-id get the same keys.
C11_NormalisedReference ==
  parsed.done =>
    \A b \in DOMAIN DesignPathKey, c \in DOMAIN NodeIdQueryId :
      url = <<"H">> \o b \o c =>
        /\ parsed.fileKey = DesignPathKey[b]
        /\ parsed.nodeId = NodeIdQueryId[c]
        /\ CacheKey("frame", parsed.fileKey, parsed.nodeId)
             = <<"frame-data", "-">> \o DesignPathKey[b] \o <<"-">> \o NodeIdQueryId[c]
        /\ CacheKey("image", parsed.fileKey, parsed.nodeId)
             = <<"figma-image", "-">> \o DesignPathKey[b] \o <<"-">> \o NodeIdQueryId[c]

C11_Witness ==
  /\ parsed.done
  /\ url = <<"H", "/", "d", "/", "A", "-", "B", "/", "x", "?", "t", "=", "1", "&",
             "N", "=", "1", "-", "2", "-", "3">>
  /\ parsed.fileKey = <<"A", "-", "B">>
  /\ parsed.nodeId = <<"1", ":", "2", ":", "3">>

\* C12: a handler whose reference URL parsed to a null fileKey or a null
\* nodeId has answered 400 and has done no cache lookup, no rate-limiter
\* acquisition, no request to the design API and no comparison.
C12_NullReferenceIs400 ==
  \A p \in Procs :
    (loc[p].route \in Handlers /\ (loc[p].fileKey = Null \/ loc[p].nodeId = Null))
      => /\ loc[p].pc = "idle"
         /\ loc[p].resp = 400
         /\ loc[p].hits = 0 /\ loc[p].fetched = 0 /\ loc[p].calls = 0

\* a region lies inside the image of the given size and is not empty
RegionInside(r, width, height) ==
  /\ r.x >= 0 /\ r.y >= 0 /\ r.width >= 1 /\ r.height >= 1
  /\ r.x + r.width <= width /\ r.y + r.height <= height

\* C13: for every image size >= 1, every pair of buffers and every
\* sensitivity the analyzer returns at most 20 issues and every region lies
\* inside the image: x >= 0, y >= 0, width >= 1, height >= 1,
\* x + width <= imageWidth, y + height <= imageHeight.
C13_IssuesBounded ==
  (cmp.stage \in {"analyzed", "done"} /\ cmp.res.ok) =>
    /\ Len(cmp.res.issues) <= 20
    /\ \A k \in 1..Len(cmp.res.issues) :
         RegionInside(cmp.res.issues[k].region, cmp.res.width, cmp.res.height)

\* more than 20 clusters were found and 20 issues are returned
C13_Witness ==
  /\ cmp.stage = "analyzed" /\ cmp.res.clusters > 20 /\ Len(cmp.res.issues) = 20

\* C14: a comparison that returns a result reports diffScore = mismatch
\* count / (width * height), a number in [0, 1]: the divisor is the number
\* of compared pixels and is positive, the count lies between 0 and it.
C14_DiffScoreInUnitRange ==
  (cmp.stage = "done" /\ cmp.res.ok) =>
    /\ cmp.res.pixels = cmp.res.width * cmp.res.height
    /\ cmp.res.pixels > 0
    /\ cmp.res.diffPixels >= 0 /\ cmp.res.diffPixels <= cmp.res.pixels

\* every pixel of a resampled pair mismatches: diffScore is 1
C14_Witness ==
  /\ cmp.stage = "done" /\ cmp.res.ok
  /\ cmp.res.width < cmp.inp.shot.width
  /\ cmp.res.pixels > 1 /\ cmp.res.diffPixels > 1

\* the smallest of three numbers
Smallest(a, b, c) == CHOOSE m \in {a, b, c} : m <= a /\ m <= b /\ m <= c

\* C15: the compared width and height are the component-wise minimum of
\* the captured size, the reference size and the requested dimensions, no
\* read of resample falls outside its source buffer, both resampled
\* buffers hold width * height * 4 bytes and no read of the analyzer falls
\* outside them.
C15_NoReadOutOfBounds ==
  (cmp.stage = "done" /\ cmp.res.ok) =>
    /\ cmp.res.width = Smallest(cmp.inp.shot.width, cmp.inp.figma.width,
                                cmp.inp.dims.width)
    /\ cmp.res.height = Smallest(cmp.inp.shot.height, cmp.inp.figma.height,
                                 cmp.inp.dims.height)
    /\ cmp.res.readsOutside = 0
    /\ cmp.res.len1 = cmp.res.width * cmp.res.height * 4
    /\ cmp.res.len2 = cmp.res.width * cmp.res.height * 4
    /\ cmp.res.analyzerOutside = 0

\* the three sizes differ and one image is resampled in both directions
C15_Witness ==
  /\ cmp.stage = "done" /\ cmp.res.ok
  /\ cmp.inp.shot.width = 60 /\ cmp.inp.figma.width = 45 /\ cmp.inp.dims.width = 50
  /\ cmp.res.width = 45 /\ cmp.res.height = 25

\* C16: comparing an image against an exact copy of itself yields no active
\* block, no issue and diffScore 0 at every sensitivity level.
C16_IdentityNoDifference ==
  (cmp.stage \in {"analyzed", "done"} /\ cmp.res.ok /\ cmp.inp.shot = cmp.inp.figma) =>
    /\ cmp.res.active = {}
    /\ cmp.res.issues = <<>>
    /\ cmp.res.diffPixels = 0

C16_Witness ==
  /\ cmp.stage = "done" /\ cmp.res.ok /\ cmp.inp.shot = cmp.inp.figma
  /\ cmp.res.width < cmp.inp.shot.width /\ cmp.s = 5

\* C17 as stated: raising the sensitivity from s to s + 1 never decreases
\* the number of issues returned for the same pair of images.
C17_IssueCountMonotone ==
  (cmp.stage = "analyzed" /\ cmp.prev.s >= 1 /\ cmp.s = cmp.prev.s + 1) =>
    Len(cmp.prev.issues) <= Len(cmp.res.issues)

\* region r lies inside region q
RegionCovered(r, q) ==
  /\ q.x <= r.x /\ q.y <= r.y
  /\ r.x + r.width <= q.x + q.width /\ r.y + r.height <= q.y + q.height

\* C17 amended: raising the sensitivity from s to s + 1 keeps every active
\* block active and, when fewer than 20 issues are returned at s + 1, every
\* region returned at s lies inside a region returned at s + 1; the number
\* of issues can go down because clusters merge.
C17_RegionsStayCovered ==
  (cmp.stage = "analyzed" /\ cmp.prev.s >= 1 /\ cmp.s = cmp.prev.s + 1) =>
    /\ cmp.prev.active \subseteq cmp.res.active
    /\ Len(cmp.res.issues) < 20 =>
         \A k \in 1..Len(cmp.prev.issues) :
           \E j \in 1..Len(cmp.res.issues) :
             RegionCovered(cmp.prev.issues[k].region, cmp.res.issues[j].region)

\* two issues at level 2 have become one at level 3
C17_Witness ==
  /\ cmp.stage = "analyzed" /\ cmp.prev.s = 2 /\ cmp.s = 3
  /\ Len(cmp.prev.issues) = 2 /\ Len(cmp.res.issues) = 1

\* the two solid 100 x 100 images that differ in a 30 x 30 corner at
\* maximum contrast, analyzed at the default sensitivity
CornerScenario ==
  /\ cmp.stage = "analyzed" /\ cmp.prev.s < 0
  /\ cmp.s = 3
  /\ cmp.inp.shot.width = 100 /\ cmp.inp.shot.height = 100
  /\ cmp.inp.shot.pat.shape = "corner" /\ cmp.inp.shot.pat.n = 30
  /\ cmp.inp.figma.width = 100 /\ cmp.inp.figma.height = 100
  /\ cmp.inp.figma.pat.shape = "solid"
  /\ cmp.res.width = 100 /\ cmp.res.height = 100

\* C18 as stated: exactly one issue, whose region is the corner rounded up
\* to the 20-pixel grid, with severity Low and type Color.
C18_CornerIsColorIssue ==
  CornerScenario =>
    /\ Len(cmp.res.issues) = 1
    /\ cmp.res.issues[1].region = [x |-> 0, y |-> 0, width |-> 40, height |-> 40]
    /\ cmp.res.issues[1].severity = "Low"
    /\ cmp.res.issues[1].type = "Color"

\* C18 amended: exactly one issue, whose region is the corner rounded up to
\* the 20-pixel grid (40 x 40, area 1600), with severity Low and type
\* Layout.
C18_CornerIsLayoutIssue ==
  CornerScenario =>
    /\ Len(cmp.res.issues) = 1
    /\ cmp.res.issues[1].region = [x |-> 0, y |-> 0, width |-> 40, height |-> 40]
    /\ cmp.res.issues[1].severity = "Low"
    /\ cmp.res.issues[1].type = "Layout"

C18_Witness == CornerScenario /\ cmp.res.clusters = 1 /\ Cardinality(cmp.res.active) = 4

\* C19: in no interleaving of concurrent callers does waitForRateLimit
\* raise an error or fail to return: a call that has ended has succeeded,
\* and a call that sleeps is resumed, records the time and returns.  (The
\* execution in which two callers read the same timestamp and then record
\* acquisitions less than 3000 ms apart is the witness.)
C19_AcquireAlwaysReturns ==
  /\ [](\A p \in Procs :
          (loc[p].route = "acquire" /\ loc[p].pc = "idle")
            => /\ loc[p].result.ok
               /\ loc[p].acquired - loc[p].rlRead >= 3000)
  /\ \A p \in Procs :
       (loc[p].pc = "rlSleep") ~> (loc[p].pc = "idle" /\ loc[p].acquired # 0)

\* both callers read the same timestamp, slept, and recorded the same instant
C19_Witness ==
  /\ loc["p1"].route = "acquire" /\ loc["p2"].route = "acquire"
  /\ loc["p1"].pc = "idle" /\ loc["p2"].pc = "idle"
  /\ loc["p1"].rlWaited /\ loc["p2"].rlWaited
  /\ loc["p1"].rlRead = loc["p2"].rlRead
  /\ loc["p1"].acquired # 0 /\ loc["p2"].acquired # 0
  /\ loc["p1"].acquired - loc["p2"].acquired < 3000
  /\ loc["p2"].acquired - loc["p1"].acquired < 3000

\* C20: no single-flight de-duplication: a getCached call for a key that
\* starts while the fetcher of another call for the same key is pending and
\* no fresh entry is stored calls its own fetcher, so that the fetcher runs
\* twice for that key.
C20_NoSingleFlight ==
  [][\A p \in Procs :
       (/\ loc[p].pc = "idle" /\ loc'[p] # loc[p]
        /\ \E q \in Procs \ {p} : loc[q].pc = "fetcher" /\ loc[q].key = loc'[p].key
        /\ ~(loc'[p].key \in DOMAIN cache
               /\ now - cache[loc'[p].key].timestamp < loc'[p].ttl))
         => /\ loc'[p].pc = "fetcher" /\ loc'[p].fetched = 1
            /\ \E q \in Procs \ {p} : /\ loc'[q].pc = "fetcher"
                                      /\ loc'[q].key = loc'[p].key
                                      /\ loc'[q].fetched = 1]_vars

\* two fetchers are pending for one key
C20_Witness ==
  /\ loc["p1"].pc = "fetcher" /\ loc["p2"].pc = "fetcher"
  /\ loc["p1"].key = loc["p2"].key
  /\ loc["p1"].fetched = 1 /\ loc["p2"].fetched = 1

\* blocks i and j of a grid with blocksX columns are next to each other in
\* a row or in a column
GridAdjacent(i, j, blocksX) ==
  Abs((i % blocksX) - (j % blocksX)) + Abs((i \div blocksX) - (j \div blocksX)) = 1

RECURSIVE Component(_, _, _)
\* the blocks of A joined to a block of K by a path of adjacent blocks of A
Component(K, A, blocksX) ==
  LET K2 == K \cup {j \in A : \E i \in K : GridAdjacent(i, j, blocksX)}
  IN IF K2 = K THEN K ELSE Component(K2, A, blocksX)

\* C21: the clusters are the maximal 4-connected components of the active
\* blocks: every active block is in exactly one cluster, the blocks of a
\* cluster are the ones joined by up/down/left/right paths of active blocks
\* (a diagonal or a row end does not join), blockCount is the number of
\* blocks and min/max row and column are their tight bounding range.
C21_ClustersAreComponents ==
  (cmp.stage = "analyzed" /\ cmp.res.ok) =>
    LET A == cmp.res.active
        F == cmp.res.found
        blocksX == CeilDiv(cmp.res.width, BLOCK_SIZE)
    IN /\ \A i \in A : Cardinality({k \in 1..Len(F) : i \in F[k].blocks}) = 1
       /\ \A k \in 1..Len(F) :
            LET B == F[k].blocks IN
            /\ B # {} /\ B \subseteq A
            /\ \A i \in B : B = Component({i}, A, blocksX)
            /\ F[k].blockCount = Cardinality(B)
            /\ \A i \in B : /\ F[k].minX <= i % blocksX /\ i % blocksX <= F[k].maxX
                             /\ F[k].minY <= i \div blocksX /\ i \div blocksX <= F[k].maxY
            /\ \E i \in B : i % blocksX = F[k].minX
            /\ \E i \in B : i % blocksX = F[k].maxX
            /\ \E i \in B : i \div blocksX = F[k].minY
            /\ \E i \in B : i \div blocksX = F[k].maxY

\* the last block of the first row, the first block of the second row and
\* a block diagonal to it are active and are three clusters of one block
C21_Witness ==
  /\ cmp.stage = "analyzed" /\ cmp.res.ok
  /\ cmp.res.active = {2, 3, 7} /\ Len(cmp.res.found) = 3
  /\ \A k \in 1..3 : cmp.res.found[k].blockCount = 1
\* the pixels of a width * height area whose column and row divided by 20
\* give block i of a grid with blocksX columns
PixelsOfBlock(width, height, i, blocksX) ==
  {x \in 0..(width - 1) : x \div 20 = i % blocksX}
    \X {y \in 0..(height - 1) : y \div 20 = i \div blocksX}

\* the two buffers the analyzer was given
AnalyzedPair ==
  IF cmp.stage = "done"
  THEN LET pm == PixelmatchCall(cmp.inp.shot, cmp.inp.figma, cmp.inp.dims)
       IN <<pm.img1, pm.img2>>
  ELSE <<cmp.inp.shot, cmp.inp.figma>>

\* (|dR| + |dG| + |dB|) / 3 > threshold for the pixel (x, y); alpha is not
\* looked at
MeanDifferenceExceeds(pair, width, xy, threshold) ==
  LET s == PixelAt(pair[1], (xy[2] * width + xy[1]) * 4)
      f == PixelAt(pair[2], (xy[2] * width + xy[1]) * 4)
      d(c) == IF s[c] > f[c] THEN s[c] - f[c] ELSE f[c] - s[c]
  IN d(1) + d(2) + d(3) > 3 * threshold

\* C22: with complete buffers, the pixels visited for block i are exactly
\* the pixels of the compared area whose column and row fall into the 20 x
\* 20 square of block i (so every pixel is counted in exactly one block and
\* edge blocks are clipped), and the block is active iff the share of its
\* pixels with (|dR| + |dG| + |dB|) / 3 > pixelDiffThreshold is strictly
\* greater than blockThreshold.
C22_BlocksPartitionAndThreshold ==
  (/\ cmp.stage \in {"analyzed", "done"} /\ cmp.res.ok
   /\ cmp.res.len1 = cmp.res.pixels * 4 /\ cmp.res.len2 = cmp.res.pixels * 4) =>
    LET width == cmp.res.width
        height == cmp.res.height
        blocksX == CeilDiv(width, 20)
        blocksY == CeilDiv(height, 20)
        config == SensitivityConfig(cmp.s)
    IN \A i \in 0..(blocksX * blocksY - 1) :
         LET P == PixelsOfBlock(width, height, i, blocksX)
             D == {xy \in P : MeanDifferenceExceeds(AnalyzedPair, width, xy,
                                                    config.pixelDiffThreshold)}
         IN /\ BlockPixels(width, height, i % blocksX, i \div blocksX) = P
            /\ P # {}
            /\ i \in cmp.res.active <=>
                 Cardinality(D) * 100 > config.blockThreshold * Cardinality(P)

\* one pixel in twenty of each block differs, which is the block threshold
\* of level 3 and not more: no block is active
C22_Witness ==
  /\ cmp.stage = "done" /\ cmp.res.ok
  /\ cmp.s = 3 /\ cmp.inp.shot.pat.shape = "columns" /\ cmp.res.active = {}
  /\ cmp.res.diffPixels = 2 * 20
\* the minimum area of the profile of a sensitivity level
MinClusterArea(sensitivity) ==
  CASE sensitivity = 1 -> 500 [] sensitivity = 2 -> 250 [] sensitivity = 4 -> 50
    [] sensitivity = 5 -> 10 [] OTHER -> 100

\* C23: every emitted issue has a clipped region area of at least the
\* minimum area of the active profile, and its severity is High iff the
\* area is above 50000, Medium iff it is above 10000 and not above 50000,
\* Low otherwise; its type is Color iff the area is below 1000 and Layout
\* otherwise.
C23_ClassifiedByArea ==
  (cmp.stage \in {"reported", "analyzed", "done"} /\ cmp.res.ok) =>
    \A e \in {cmp.res.derived[k] : k \in 1..Len(cmp.res.derived)}
              \cup {cmp.res.issues[k] : k \in 1..Len(cmp.res.issues)} :
      LET area == e.region.width * e.region.height IN
      /\ area >= MinClusterArea(cmp.s)
      /\ e.severity \in {"High", "Medium", "Low"}
      /\ e.severity = "High" <=> area > 50000
      /\ e.severity = "Medium" <=> (10000 < area /\ area <= 50000)
      /\ e.type \in {"Color", "Layout"}
      /\ e.type = "Color" <=> area < 1000

\* a region of exactly 10000 pixels is reported with severity Low
C23_Witness ==
  /\ cmp.stage = "reported"
  /\ \E k \in 1..Len(cmp.res.issues) :
       /\ cmp.res.issues[k].region.width * cmp.res.issues[k].region.height = 10000
       /\ cmp.res.issues[k].severity = "Low"
       /\ cmp.res.issues[k].type = "Layout"
\* issue e ranks strictly above issue r: a higher severity, or the same
\* severity and a larger region
RanksAbove(e, r) ==
  LET rank(i) == CASE i.severity = "High" -> 3 [] i.severity = "Medium" -> 2
                   [] OTHER -> 1
      area(i) == i.region.width * i.region.height
  IN \/ rank(e) > rank(r)
     \/ rank(e) = rank(r) /\ area(e) > area(r)

\* C24: the returned list holds min(20, number of issues derived) of the
\* derived issues, each once, in an order in which no issue ranks strictly
\* above an earlier one (severity High > Medium > Low, then region area),
\* and no omitted issue ranks strictly above a returned one.
C24_SortedPrefix ==
  (cmp.stage \in {"reported", "analyzed", "done"} /\ cmp.res.ok) =>
    LET R == cmp.res.issues
        D == cmp.res.derived
        omitted == {k \in 1..Len(D) : \A j \in 1..Len(R) : R[j] # D[k]}
    IN /\ Len(R) = IF Len(D) > 20 THEN 20 ELSE Len(D)
       /\ \A j \in 1..Len(R) : \E k \in 1..Len(D) : R[j] = D[k]
       /\ \A i, j \in 1..Len(R) : i < j => R[i] # R[j] /\ ~RanksAbove(R[j], R[i])
       /\ Cardinality(omitted) = Len(D) - Len(R)
       /\ \A k \in omitted : \A j \in 1..Len(R) : ~RanksAbove(D[k], R[j])

\* more than 20 issues of three severities are derived, the first one found
\* is not the first one returned, and issues are omitted
C24_Witness ==
  /\ cmp.stage = "reported" /\ Len(cmp.res.derived) > 20 /\ Len(cmp.res.issues) = 20
  /\ cmp.res.derived[1] # cmp.res.issues[1]
  /\ cmp.res.issues[1].severity = "High"
  /\ \E j \in 1..20 : cmp.res.issues[j].severity = "Medium"
  /\ cmp.res.issues[20].severity = "Low"
\* the key the handlers use for an operation on a reference
WrappedKey(kind, fileKey, nodeId) ==
  LET text(v) == IF v = Null THEN <<"n", "u", "l", "l">> ELSE v
  IN (IF kind = "frame" THEN <<"frame-data", "-">> ELSE <<"figma-image", "-">>)
       \o text(fileKey) \o <<"-">> \o text(nodeId)

\* C25: in the handlers a design-API operation starts only on a miss of
\* getCached for its key.  A step in which getCached only hits acquires
\* nothing, requests nothing and leaves lastFigmaApiCall alone.  A miss
\* starts one acquisition: lastFigmaApiCall is written once, when the
\* acquisition completes, not again while the operation retries, and the
\* first request attempt is made in the step that completes it.
C25_CacheWrapsOperations ==
  [][\A p \in {"p1"} :
       LET l == loc[p]
           m == loc'[p]
           missed == m.fetched = l.fetched + 1 \/ (l.pc = "idle" /\ m.fetched = 1)
           hitOnly == ~missed /\ (m.hits > l.hits \/ (l.pc = "idle" /\ m.hits > 0))
           inOperation(q) == q.pc \in {"rlSleep", "fetching", "retrySleep", "body"}
       IN (m.route \in Handlers /\ m # l) =>
            /\ hitOnly =>
                 /\ lastFigmaApiCall' = lastFigmaApiCall /\ lastReqAt' = lastReqAt
                 /\ ~inOperation(m)
            /\ missed =>
                 /\ m.key = WrappedKey(m.kind, m.fileKey, m.nodeId)
                 /\ m.key \notin DOMAIN cache'
                      \/ now - cache'[m.key].timestamp >= CACHE_TTL
                 /\ \/ /\ m.pc = "rlSleep" /\ m.acquired = 0
                       /\ lastFigmaApiCall' = lastFigmaApiCall /\ lastReqAt' = lastReqAt
                    \/ /\ m.pc = "fetching" /\ m.acquired = now /\ m.calls = 1
                       /\ lastFigmaApiCall' = now /\ lastReqAt' = now
            /\ (inOperation(m) /\ ~inOperation(l)) => missed
            /\ (l.pc = "rlSleep" /\ ~missed) =>
                 /\ m.pc = "fetching" /\ m.acquired = now /\ m.calls = 1
                 /\ lastFigmaApiCall' = now /\ lastReqAt' = now
            /\ (l.pc \in {"fetching", "retrySleep", "body"} /\ ~missed) =>
                 /\ lastFigmaApiCall' = lastFigmaApiCall
                 /\ m.pc = "fetching" => (m.acquired = l.acquired /\ m.acquired # 0
                                           /\ m.calls = l.calls + 1)]_vars

\* a comparison request found both the frame data and the image URL in
\* the cache, after a request whose second operation had to wait for the
\* limiter
C25_Witness ==
  /\ loc["p1"].route = "compare-ui" /\ loc["p1"].pc = "comparing"
  /\ loc["p1"].hits = 2 /\ loc["p1"].fetched = 0
  /\ lastFigmaApiCall >= BootTime + MIN_API_CALL_INTERVAL

\* C26: no step removes a key from the cache, so the number of entries
\* never goes down; an entry that is there changes only when a fetcher for
\* its key has completed successfully, and then to the fetched data with
\* the time of completion.
C26_EntriesNeverRemoved ==
  [][/\ DOMAIN cache \subseteq DOMAIN cache'
     /\ Cardinality(DOMAIN cache) <= Cardinality(DOMAIN cache')
     /\ \A k \in DOMAIN cache :
          cache'[k] # cache[k] =>
            \E p \in Procs :
              /\ loc[p].pc = "fetcher" /\ loc[p].key = k
              /\ loc'[p].pc = "idle" /\ loc'[p].result.ok
              /\ cache'[k] = [data |-> loc'[p].result.data, timestamp |-> now]]_vars

\* both keys are stored, and the last call found an entry that was stale
\* and has replaced it
C26_Witness ==
  /\ Cardinality(DOMAIN cache) = 2
  /\ loc["p1"].pc = "idle" /\ loc["p1"].result.ok
  /\ loc["p1"].fetched = 1 /\ loc["p1"].snapTs # 0
  /\ cache[loc["p1"].key].timestamp = now /\ loc["p1"].snapTs < now

\* the latest acquisitions of callers p and q are less than
\* MIN_API_CALL_INTERVAL apart
UnderWaited(p, q) ==
  /\ loc[p].route = "acquire" /\ loc[q].route = "acquire"
  /\ loc[p].acquired # 0 /\ loc[q].acquired # 0
  /\ loc[p].acquired - loc[q].acquired < 3000
  /\ loc[q].acquired - loc[p].acquired < 3000

\* C27 as stated: two acquisitions less than MIN_API_CALL_INTERVAL apart
\* are made only by callers that both took the sleeping path.
C27_UnderWaitOnlyBetweenSleepers ==
  \A p, q \in Procs :
    (p # q /\ UnderWaited(p, q)) => (loc[p].rlWaited /\ loc[q].rlWaited)

\* C27 amended: a caller that finds the interval elapsed records the time
\* and returns in the step of its call, so two callers that did not sleep
\* never acquire less than MIN_API_CALL_INTERVAL apart; a caller q that did
\* not sleep under-waits only against a sleeper p whose delay was over
\* (q acquired at or after the instant p was to wake at, the timestamp p
\* read plus MIN_API_CALL_INTERVAL) and who resumed after q.
C27_FastPathAtomic ==
  /\ [][\A p \in Procs :
          (/\ loc[p].pc = "idle" /\ loc'[p] # loc[p]
           /\ now - lastFigmaApiCall >= 3000)
            => /\ loc'[p].pc = "idle" /\ ~loc'[p].rlWaited
               /\ loc'[p].acquired = now /\ lastFigmaApiCall' = now]_vars
  /\ [](\A p, q \in Procs :
          (p # q /\ UnderWaited(p, q) /\ ~loc[q].rlWaited)
            => /\ loc[p].rlWaited
               /\ loc[p].rlRead + 3000 <= loc[q].acquired
               /\ loc[q].acquired <= loc[p].acquired)

\* a caller slept, a second caller came when the delay was over and the
\* sleeper had not resumed, and acquired without sleeping; then the sleeper
\* resumed: both acquired at the same instant
C27_Witness ==
  /\ loc["p1"].pc = "idle" /\ loc["p2"].pc = "idle"
  /\ UnderWaited("p1", "p2")
  /\ ~loc["p1"].rlWaited /\ loc["p2"].rlWaited
  /\ loc["p1"].acquired = loc["p2"].acquired

\* C28: when the last permitted attempt (index maxRetries - 1) fails with
\* a rate-limit-class error the call sleeps the backoff and rejects only
\* when the delay is over, with that error and without a further attempt;
\* a call in which every attempt was rate-limited has slept as often as it
\* invoked fn, maxRetries times; with maxRetries = 0 fn is not invoked and
\* the call rejects with 'Max retries exceeded'.
C28_SleepsAfterLastAttempt ==
  /\ [][\A p \in {"p1"} :
          LET l == loc[p]
              m == loc'[p]
          IN (l.route = "retry" /\ m # l /\ l.i = l.maxRetries - 1) =>
               /\ (l.pc = "fetching" /\ Len(m.errs) = Len(l.errs) + 1
                      /\ RateLimitClass(Last(m.errs)))
                    => /\ m.pc = "retrySleep"
                       /\ Len(m.sleeps) = Len(l.sleeps) + 1
                       /\ m.wake = now + Last(m.sleeps)
               /\ l.pc = "retrySleep"
                    => /\ now >= l.wake
                       /\ m.pc = "idle" /\ ~m.result.ok
                       /\ m.result.err = Last(l.errs)
                       /\ m.calls = l.calls]_vars
  /\ [](\A p \in {"p1"} :
          loc[p].route = "retry" =>
            /\ (/\ loc[p].pc = "idle" /\ Len(loc[p].errs) = loc[p].calls
                /\ \A k \in 1..Len(loc[p].errs) : RateLimitClass(loc[p].errs[k]))
                 => /\ Len(loc[p].sleeps) = loc[p].calls
                    /\ loc[p].calls = loc[p].maxRetries
            /\ loc[p].maxRetries = 0
                 => /\ loc[p].pc = "idle" /\ loc[p].calls = 0 /\ loc[p].sleeps = <<>>
                    /\ ~loc[p].result.ok
                    /\ loc[p].result.err
                         = [type |-> "Error", message |-> <<"Max retries exceeded">>,
                            retryAfter |-> 0])

\* three attempts were allowed, all three were rate-limited, and the call
\* has rejected after three sleeps, the last one of four times the base
\* delay
C28_Witness ==
  /\ loc["p1"].route = "retry" /\ loc["p1"].pc = "idle"
  /\ loc["p1"].maxRetries = 3 /\ loc["p1"].calls = 3
  /\ Len(loc["p1"].errs) = 3 /\ Len(loc["p1"].sleeps) = 3
  /\ loc["p1"].sleeps[3] = 4 * loc["p1"].initialDelay
  /\ ~loc["p1"].result.ok

\* C29: for the same pair of images and levels s < s' in 1..5, every block
\* active at s is active at s' and every issue region derived at s (before
\* the cut to 20) lies inside an issue region derived at s'.
C29_MonotoneInSensitivity ==
  (cmp.stage = "analyzed" /\ cmp.prev.s >= 1) =>
    /\ cmp.prev.s < cmp.s /\ cmp.s <= 5
    /\ cmp.prev.active \subseteq cmp.res.active
    /\ \A k \in 1..Len(cmp.prev.derived) :
         \E j \in 1..Len(cmp.res.derived) :
           RegionCovered(cmp.prev.derived[k].region, cmp.res.derived[j].region)

\* from level 2 to level 4 a block has become active, two clusters have
\* merged and the two issues of level 2 lie inside the one issue of level 4
C29_Witness ==
  /\ cmp.stage = "analyzed" /\ cmp.prev.s = 2 /\ cmp.s = 4
  /\ cmp.prev.active # cmp.res.active /\ cmp.prev.active # {}
  /\ Len(cmp.prev.derived) = 2 /\ Len(cmp.res.derived) = 1

\* C30: a getCached call that missed stores its own result, with the time
\* of that moment, when its fetcher completes successfully, whatever has
\* been stored for the key in between; so of two calls that missed
\* concurrently the entry held afterwards is that of the call whose
\* fetcher completed last, regardless of which call started first.
C30_LastCompletionWins ==
  /\ [][\A p \in Procs :
          (loc[p].pc = "fetcher" /\ loc'[p].pc = "idle") =>
            IF loc'[p].result.ok
            THEN /\ DOMAIN cache' = DOMAIN cache \cup {loc[p].key}
                 /\ cache'[loc[p].key]
                      = [data |-> loc'[p].result.data, timestamp |-> now]
                 /\ \A k \in DOMAIN cache \ {loc[p].key} : cache'[k] = cache[k]
            ELSE cache' = cache]_vars
  /\ [](\A p, q \in Procs :
          (/\ p # q /\ loc[p].pc = "idle" /\ loc[q].pc = "idle"
           /\ loc[p].route = "getCached" /\ loc[q].route = "getCached"
           /\ loc[p].key = loc[q].key
           /\ loc[p].fetched = 1 /\ loc[q].fetched = 1
           /\ loc[p].result.ok /\ loc[q].result.ok
           /\ loc[p].settledAt > loc[q].settledAt)
            => cache[loc[p].key]
                 = [data |-> loc[p].result.data, timestamp |-> loc[p].settledAt])

\* p1 called first, p2 called while p1's fetcher was pending; p2's fetcher
\* completed first and its value was stored; then p1's fetcher completed,
\* and the entry is p1's value with the time of p1's completion
C30_Witness ==
  /\ loc["p1"].pc = "idle" /\ loc["p2"].pc = "idle"
  /\ loc["p1"].route = "getCached" /\ loc["p2"].route = "getCached"
  /\ loc["p1"].key = loc["p2"].key
  /\ loc["p1"].fetched = 1 /\ loc["p2"].fetched = 1
  /\ loc["p1"].snapTs = 0 /\ loc["p2"].snapTs = 0
  /\ loc["p1"].result.ok /\ loc["p2"].result.ok
  /\ loc["p1"].result.data # loc["p2"].result.data
  /\ loc["p1"].startedAt < loc["p2"].startedAt
  /\ loc["p2"].settledAt < loc["p1"].settledAt
  /\ cache[loc["p1"].key]
       = [data |-> loc["p1"].result.data, timestamp |-> loc["p1"].settledAt]
====
